---------------------------- MODULE Spec2Model ----------------------------
(***************************************************************************)
(* A model of the MSVC demangler of src/src/lib.rs: the recursive-descent  *)
(* parser (ParserState), the two-pass declarator printer (Serializer) and  *)
(* the public functions parse, serialize and demangle.                     *)
(*                                                                         *)
(* Bytes are one-character strings, byte slices are sequences of them.     *)
(* Every reader of the parser is an operator from a ParserState to an      *)
(* outcome [st, why, v, ps]: st is "ok" (Result::Ok), "err" (Result::Err)  *)
(* or "panic" (the thread unwinds: panic!, a failed expect or unwrap, an   *)
(* arithmetic overflow in a build with overflow checks); ps is the         *)
(* ParserState the call leaves behind.  The field ps.log is a history      *)
(* variable: the calls that touched the backreference tables, what the     *)
(* readers of names, numbers, parameters, classes, qualifiers and markers  *)
(* returned, and the errors the readers reported, in order.  Every writer  *)
(* of the serializer is an operator from a Serializer [flags, w, log] to   *)
(* an outcome [st, why, s]; s.log is the history of the calls of           *)
(* write_space and                                                         *)
(* write_space_pre, of the parentheses written around a pointer or         *)
(* reference to a function or array, and of the calls of write_name and of *)
(* write_tmpl_params.                                                      *)
(*                                                                         *)
(* The methods of ParserState call one another through the operator call,  *)
(* those of Serializer through scall: call("read_name", ps, x) is          *)
(* self.read_name(x) on the state ps.                                      *)
(*                                                                         *)
(* The grave accent (byte 0x60) is written "#" throughout, in the bytes    *)
(* and in the names of the literals that hold it: the lexer of the tools   *)
(* does not take a grave accent inside a string.  No other byte of the     *)
(* model is "#".                                                           *)
(***************************************************************************)
EXTENDS Integers, Sequences, FiniteSets, TLC

VARIABLES
    checks,    \* the build profile: TRUE when arithmetic overflow is checked
               \* (debug-assertions builds panic), FALSE when it wraps
    input,     \* the bytes handed to demangle / parse
    flags,     \* the DemangleFlags handed to serialize ("" before the call)
    pc,        \* "start", "parsed", "serialized"
    presult,   \* what parse returned (or that it panicked)
    sresult    \* what serialize returned (or that it panicked)

vars == <<checks, input, flags, pc, presult, sresult>>

\* ------------------------------------------------------------------ bytes

Digits == {"0", "1", "2", "3", "4", "5", "6", "7", "8", "9"}

DigitSeq == <<"0", "1", "2", "3", "4", "5", "6", "7", "8", "9">>

\* b'A'...b'P', the "hex digits" of <number>
HexSeq == <<"A", "B", "C", "D", "E", "F", "G", "H",
            "I", "J", "K", "L", "M", "N", "O", "P">>

UpperLetters == {"A", "B", "C", "D", "E", "F", "G", "H", "I", "J", "K", "L", "M",
                 "N", "O", "P", "Q", "R", "S", "T", "U", "V", "W", "X", "Y", "Z"}

LowerLetters == {"a", "b", "c", "d", "e", "f", "g", "h", "i", "j", "k", "l", "m",
                 "n", "o", "p", "q", "r", "s", "t", "u", "v", "w", "x", "y", "z"}

\* char::is_digit(10)
is_digit10(c) == c \in Digits

\* char::is_digit(16)
is_digit16(c) == c \in Digits \cup {"a", "b", "c", "d", "e", "f"}
                              \cup {"A", "B", "C", "D", "E", "F"}

\* char::is_ascii_alphabetic
is_ascii_alphabetic(c) == c \in UpperLetters \cup LowerLetters

\* first - b'0'
DigitVal(c) == (CHOOSE i \in 1..10 : DigitSeq[i] = c) - 1

\* c - b'A' for b'A'...b'P'
HexVal(c) == (CHOOSE i \in 1..16 : HexSeq[i] = c) - 1

\* --------------------------------------------------------------- integers

\* i32::MAX and i32::MIN
MaxI32 == 2147483647

MinI32 == -MaxI32 - 1

\* a + b on i32 overflows
AddOverflows(a, b) ==
    \/ a > 0 /\ b > 0 /\ a > MaxI32 - b
    \/ a < 0 /\ b < 0 /\ a < MinI32 - b

\* a.wrapping_add(b): the sum modulo 2^32, as an i32
WrapAdd(a, b) ==
    IF a > 0 /\ b > 0 /\ a > MaxI32 - b
    THEN (a + MinI32) + (b + MinI32)
    ELSE IF a < 0 /\ b < 0 /\ a < MinI32 - b
    THEN (a - MinI32) + (b - MinI32)
    ELSE a + b

\* ret << 4 on i32: the high four bits are shifted out, no check
Shl4(n) ==
    LET lo == n % 268435456
    IN  IF lo >= 134217728 THEN (lo - 268435456) * 16 ELSE lo * 16

\* n * 10 on i32 overflows
Mul10Overflows(n) == n > MaxI32 \div 10 \/ n < -(MaxI32 \div 10)

\* n.wrapping_mul(10)
WrapMul10(n) ==
    LET n2 == WrapAdd(n, n)
        n4 == WrapAdd(n2, n2)
        n5 == WrapAdd(n4, n)
    IN  WrapAdd(n5, n5)

\* ------------------------------------------------------------------ slices

StartsWith(s, p) ==
    /\ Len(p) <= Len(s)
    /\ \A i \in 1..Len(p) : s[i] = p[i]

Drop(s, n) == SubSeq(s, n + 1, Len(s))

Contains(tbl, x) == \E i \in 1..Len(tbl) : tbl[i] = x

Last(s) == s[Len(s)]

Rev(s) == [i \in 1..Len(s) |-> s[Len(s) + 1 - i]]

\* ------------------------------------------------------------- the AST

\* bitflags StorageClass and FuncClass: sets of flag names
Operator(op)       == [k |-> "Operator", op |-> op]
NonTemplate(bytes) == [k |-> "NonTemplate", bytes |-> bytes]
Template(n, ps)    == [k |-> "Template", name |-> n, params |-> ps]
Discriminator(n)   == [k |-> "Discriminator", n |-> n]
ParsedName(pr)     == [k |-> "ParsedName", pr |-> pr]
AnonymousNamespace == [k |-> "AnonymousNamespace"]

Symbol(name, scope) == [name |-> name, scope |-> scope]

ParseResult(sym, ty) == [symbol |-> sym, symbol_type |-> ty]

TNone == [k |-> "None"]
MemberFunction(fc, cc, params, sc, ret) ==
    [k |-> "MemberFunction", fc |-> fc, cc |-> cc, params |-> params,
     sc |-> sc, inner |-> ret]
MemberFunctionPointer(name, params, sc, ret) ==
    [k |-> "MemberFunctionPointer", name |-> name, params |-> params,
     sc |-> sc, inner |-> ret]
NonMemberFunction(cc, params, sc, ret) ==
    [k |-> "NonMemberFunction", cc |-> cc, params |-> params,
     sc |-> sc, inner |-> ret]
CXXVBTable(scope, sc) == [k |-> "CXXVBTable", scope |-> scope, sc |-> sc]
CXXVFTable(scope, sc) == [k |-> "CXXVFTable", scope |-> scope, sc |-> sc]
TemplateParameterWithIndex(n) == [k |-> "TemplateParameterWithIndex", n |-> n]
ThreadSafeStaticGuard(n) == [k |-> "ThreadSafeStaticGuard", n |-> n]
Constant(n) == [k |-> "Constant", n |-> n]
Ptr(inner, sc) == [k |-> "Ptr", inner |-> inner, sc |-> sc]
Ref(inner, sc) == [k |-> "Ref", inner |-> inner, sc |-> sc]
RValueRef(inner, sc) == [k |-> "RValueRef", inner |-> inner, sc |-> sc]
Array(len, inner, sc) == [k |-> "Array", n |-> len, inner |-> inner, sc |-> sc]
\* Struct, Union, Class, Enum
Nominal(kind, sym, sc) == [k |-> kind, sym |-> sym, sc |-> sc]
\* Void, Bool, Char, ..., Ldouble
Prim(kind, sc) == [k |-> kind, sc |-> sc]
VarArgs == [k |-> "VarArgs"]
EmptyParameterPack == [k |-> "EmptyParameterPack"]
Nullptr == [k |-> "Nullptr"]

\* ------------------------------------------------------------ ParserState

\* The capacity of a backreference table.
TableCap == 10

NewParserState(inp) ==
    [input |-> inp, memorized_names |-> <<>>, memorized_types |-> <<>>,
     log |-> <<>>]

\* One entry of the history: the call, the index or count it is about, the
\* tables and the input before and after it, and the value it gave.
Event(op, i, pre, post, st, v) ==
    [op |-> op, i |-> i,
     in0 |-> pre.input, names0 |-> pre.memorized_names,
     types0 |-> pre.memorized_types,
     in1 |-> post.input, names1 |-> post.memorized_names,
     types1 |-> post.memorized_types,
     st |-> st, v |-> v]

Logged(op, i, pre, post, st, v) ==
    [post EXCEPT !.log = Append(post.log, Event(op, i, pre, post, st, v))]

\* outcomes of a call

NoVal == <<>>

Ok(v, ps) == [st |-> "ok", why |-> "", v |-> v, ps |-> ps]

\* Err(Error::new(why ...)); why is the head of the message.  The history
\* keeps every error a reader reported.
Err(why, ps) ==
    [st |-> "err", why |-> why, v |-> NoVal,
     ps |-> Logged("error", 0, ps, ps, "err", why)]

Panic(why, ps) == [st |-> "panic", why |-> why, v |-> NoVal, ps |-> ps]

\* the '?' operator: what a failed call hands to its caller
Fail(r) == [st |-> r.st, why |-> r.why, v |-> NoVal, ps |-> r.ps]

IsOk(r) == r.st = "ok"

\* The history entry of a reader that returned Ok: the call op (with the
\* argument or count i) began on pre and gave r.
Returned(op, i, pre, r) ==
    IF IsOk(r)
    THEN [r EXCEPT !.ps = Logged(op, i, pre, r.ps, "ok", r.v)]
    ELSE r

peek(ps) == IF Len(ps.input) = 0 THEN "" ELSE ps.input[1]

trim(ps, len) == [ps EXCEPT !.input = Drop(ps.input, len)]

get(ps) ==
    IF Len(ps.input) > 0
    THEN Ok(ps.input[1], trim(ps, 1))
    ELSE Panic("Unexpected end of input", ps)

\* consume gives <<bool, ParserState>>
consumes(ps, s) == StartsWith(ps.input, s)

consume(ps, s) == IF consumes(ps, s) THEN trim(ps, Len(s)) ELSE ps

expect(ps, s) ==
    IF consumes(ps, s)
    THEN Ok(NoVal, consume(ps, s))
    ELSE Err("expected, but got", ps)

\* Some(first - b'0') exactly when has_digit
has_digit(ps) == Len(ps.input) > 0 /\ is_digit10(ps.input[1])

consume_digit(ps) ==
    IF has_digit(ps)
    THEN [some |-> TRUE, v |-> DigitVal(ps.input[1]), ps |-> trim(ps, 1)]
    ELSE [some |-> FALSE, v |-> 0, ps |-> ps]

\* let _is_64bit_ptr = self.expect(b"E"); the Result is dropped.  The
\* history keeps the read of the marker and its place: 1 the this pointer
\* of a member function, 2 a pointee, 3 a pointer to a member function.
optional_E(ps, site) ==
    LET e == expect(ps, <<"E">>)
    IN  Logged("marker", site, ps, IF IsOk(e) THEN e.ps ELSE ps, "ok", NoVal)

\* let _is_64bit_ptr = self.expect(b"E")?;
required_E(ps, site) ==
    LET e == expect(ps, <<"E">>)
    IN  IF IsOk(e)
        THEN [e EXCEPT !.ps = Logged("marker", site, ps, e.ps, "ok", NoVal)]
        ELSE expect(Logged("marker", site, ps, ps, "err", NoVal), <<"E">>)

consume_hex_digit(ps) ==
    IF Len(ps.input) > 0 /\ is_digit16(ps.input[1])
    THEN [some |-> TRUE, ps |-> trim(ps, 1)]
    ELSE [some |-> FALSE, ps |-> ps]

\* The readers call one another, and in cycles.  A reader's call of a
\* reader is written call(name, ps, argument), NoVal where the reader takes
\* no argument; call, defined after the last of them, hands the call to the
\* reader of that name.
RECURSIVE call(_, _, _)

\* -(ret as i32): negating i32::MIN overflows
Neg32(n, ps) ==
    IF n = MinI32
    THEN IF checks THEN Panic("attempt to negate with overflow", ps)
                   ELSE Ok(n, ps)
    ELSE Ok(-n, ps)

\* The 'for c in self.input' loop of read_number from byte i+1 on, with ret
\* accumulated so far: where it ends ("at" the terminator, or "bad").
RECURSIVE hex_run(_, _, _)
hex_run(inp, i, ret) ==
    IF i >= Len(inp) THEN [end |-> "bad", i |-> i, ret |-> ret]
    ELSE LET c == inp[i + 1]
         IN  IF c = "@" THEN [end |-> "at", i |-> i, ret |-> ret]
             ELSE IF \E j \in 1..16 : HexSeq[j] = c
             THEN hex_run(inp, i + 1, Shl4(ret) + HexVal(c))
             ELSE [end |-> "bad", i |-> i, ret |-> ret]

read_number(ps0) ==
    LET neg == consumes(ps0, <<"?">>)
        ps  == consume(ps0, <<"?">>)
        d   == consume_digit(ps)
    IN  Returned("number", 0, ps0,
            IF d.some
            THEN Ok(IF neg THEN -(d.v + 1) ELSE d.v + 1, d.ps)
            ELSE LET run == hex_run(ps.input, 0, 0)
                 IN  IF run.end = "at"
                     THEN IF neg THEN Neg32(run.ret, trim(ps, run.i + 1))
                                 ELSE Ok(run.ret, trim(ps, run.i + 1))
                     ELSE Err("bad number", ps))

\* position of the first b'@' (0 when there is none)
RECURSIVE position_at(_, _)
position_at(inp, i) ==
    IF i > Len(inp) THEN 0
    ELSE IF inp[i] = "@" THEN i ELSE position_at(inp, i + 1)

\* a read_string with a retry branch: a name met for the first time is
\* given back without being read, and is read when it is met again
read_string_retried(ps) ==
    LET pos == position_at(ps.input, 1)
        name == SubSeq(ps.input, 1, pos - 1)
        known == \/ Contains(ps.memorized_names, NonTemplate(name))
                 \/ Len(ps.memorized_names) >= TableCap
    IN  IF pos > 0
        THEN Ok(name, IF known THEN trim(ps, pos) ELSE ps)
        ELSE Err("read_string: missing b'@'", ps)

read_string(ps) ==
    LET pos == position_at(ps.input, 1)
    IN  IF pos > 0
        THEN Ok(SubSeq(ps.input, 1, pos - 1), trim(ps, pos))
        ELSE Err("read_string: missing b'@'", ps)

\* memorize_name without the capacity test
memorize_name_uncapped(ps, n) ==
    LET post == IF ~Contains(ps.memorized_names, n)
                THEN [ps EXCEPT !.memorized_names = Append(@, n)]
                ELSE ps
    IN  Logged("memorize_name", 0, ps, post, "ok", n)

memorize_name(ps, n) ==
    LET post == IF Len(ps.memorized_names) < TableCap
                   /\ ~Contains(ps.memorized_names, n)
                THEN [ps EXCEPT !.memorized_names = Append(@, n)]
                ELSE ps
    IN  Logged("memorize_name", 0, ps, post, "ok", n)

memorize_type(ps, t) ==
    LET post == IF Len(ps.memorized_types) < TableCap
                   /\ ~Contains(ps.memorized_types, t)
                THEN [ps EXCEPT !.memorized_types = Append(@, t)]
                ELSE ps
    IN  Logged("memorize_type", 0, ps, post, "ok", t)

\* ------------------------------------------------------- the fixed tables

OperatorTable ==
    "0" :> "ctor" @@ "1" :> "dtor" @@ "2" :> "operator new"
    @@ "3" :> "operator delete" @@ "4" :> "operator=" @@ "5" :> "operator>>"
    @@ "6" :> "operator<<" @@ "7" :> "operator!" @@ "8" :> "operator=="
    @@ "9" :> "operator!=" @@ "A" :> "operator[]" @@ "B" :> "operatorcast"
    @@ "C" :> "operator->" @@ "D" :> "operator*" @@ "E" :> "operator++"
    @@ "F" :> "operator--" @@ "G" :> "operator-" @@ "H" :> "operator+"
    @@ "I" :> "operator&" @@ "J" :> "operator->*" @@ "K" :> "operator/"
    @@ "L" :> "operator%" @@ "M" :> "operator<" @@ "N" :> "operator<="
    @@ "O" :> "operator>" @@ "P" :> "operator>=" @@ "Q" :> "operator,"
    @@ "R" :> "operator()" @@ "S" :> "operator~" @@ "T" :> "operator^"
    @@ "U" :> "operator|" @@ "V" :> "operator&&" @@ "W" :> "operator||"
    @@ "X" :> "operator*=" @@ "Y" :> "operator+=" @@ "Z" :> "operator-="

OperatorTable_ ==
    "0" :> "operator/=" @@ "1" :> "operator%=" @@ "2" :> "operator>>="
    @@ "3" :> "operator<<=" @@ "4" :> "operator&=" @@ "5" :> "operator|="
    @@ "6" :> "operator^=" @@ "7" :> "#vftable'" @@ "8" :> "#vbtable'"
    @@ "9" :> "#vcall'" @@ "A" :> "#typeof'" @@ "B" :> "#local static guard'"
    @@ "D" :> "#vbase destructor'" @@ "E" :> "#vector deleting destructor'"
    @@ "F" :> "#default constructor closure'"
    @@ "G" :> "#scalar deleting destructor'"
    @@ "H" :> "#vector constructor iterator'"
    @@ "I" :> "#vector destructor iterator'"
    @@ "J" :> "#vector vbase constructor iterator'"
    @@ "K" :> "#virtual displacement map'"
    @@ "L" :> "#eh vector constructor iterator'"
    @@ "M" :> "#eh vector destructor iterator'"
    @@ "N" :> "#eh vector vbase constructor iterator'"
    @@ "O" :> "#copy constructor closure'" @@ "S" :> "#local vftable'"
    @@ "T" :> "#local vftable constructor closure'"
    @@ "U" :> "operator new[]" @@ "V" :> "operator delete[]"
    @@ "X" :> "#placement delete closure'"
    @@ "Y" :> "#placement delete[] closure'"

\* a read_operator_name whose tables are open: a code that is in neither
\* table is read as the assignment operator
read_operator_name_open(ps) ==
    LET g1 == get(ps)
    IN  IF ~IsOk(g1) THEN Fail(g1)
        ELSE IF g1.v \in DOMAIN OperatorTable
        THEN Ok(OperatorTable[g1.v], g1.ps)
        ELSE IF g1.v = "_"
        THEN LET g2 == get(g1.ps)
             IN  IF ~IsOk(g2) THEN Fail(g2)
                 ELSE IF g2.v \in DOMAIN OperatorTable_
                 THEN Ok(OperatorTable_[g2.v], g2.ps)
                 ELSE Ok("operator=", g2.ps)
        ELSE Ok("operator=", g1.ps)

read_operator_name(ps) ==
    LET g1 == get(ps)
    IN  IF ~IsOk(g1) THEN Fail(g1)
        ELSE IF g1.v \in DOMAIN OperatorTable
        THEN Ok(OperatorTable[g1.v], g1.ps)
        ELSE IF g1.v = "_"
        THEN LET g2 == get(g1.ps)
             IN  IF ~IsOk(g2) THEN Fail(g2)
                 ELSE IF g2.v \in DOMAIN OperatorTable_
                 THEN Ok(OperatorTable_[g2.v], g2.ps)
                 ELSE IF g2.v = "_"
                 THEN IF consumes(g2.ps, <<"L">>)
                      THEN Ok(" co_await", consume(g2.ps, <<"L">>))
                      ELSE IF consumes(g2.ps, <<"K">>)
                      THEN Ok(" CXXLiteralOperatorName",
                              consume(g2.ps, <<"K">>))
                      ELSE Err("unknown operator name", g2.ps)
                 ELSE Err("unknown operator name", g2.ps)
        ELSE Err("unknown operator name", g1.ps)

\* an operator name that is memorized like an identifier
read_operator_memorized(ps) ==
    LET r == call("read_operator_name", ps, NoVal)
    IN  IF ~IsOk(r) THEN Fail(r)
        ELSE Ok(Operator(r.v), memorize_name(r.ps, Operator(r.v)))

read_operator(ps) ==
    LET r == call("read_operator_name", ps, NoVal)
    IN  IF ~IsOk(r) THEN Fail(r) ELSE Ok(Operator(r.v), r.ps)

\* the flags of the bytes that read no thunk adjustment
FuncClassTable ==
    "A" :> {"PRIVATE"} @@ "B" :> {"PRIVATE", "FAR"}
    @@ "C" :> {"PRIVATE", "STATIC"} @@ "D" :> {"PRIVATE", "STATIC"}
    @@ "E" :> {"PRIVATE", "VIRTUAL"} @@ "F" :> {"PRIVATE", "VIRTUAL"}
    @@ "I" :> {"PROTECTED"} @@ "J" :> {"PROTECTED", "FAR"}
    @@ "K" :> {"PROTECTED", "STATIC"} @@ "L" :> {"PROTECTED", "STATIC", "FAR"}
    @@ "M" :> {"PROTECTED", "VIRTUAL"}
    @@ "N" :> {"PROTECTED", "VIRTUAL", "FAR"}
    @@ "Q" :> {"PUBLIC"} @@ "R" :> {"PUBLIC", "FAR"}
    @@ "S" :> {"PUBLIC", "STATIC"} @@ "T" :> {"PUBLIC", "STATIC", "FAR"}
    @@ "U" :> {"PUBLIC", "VIRTUAL"} @@ "V" :> {"PUBLIC", "VIRTUAL", "FAR"}
    @@ "Y" :> {"GLOBAL"} @@ "Z" :> {"GLOBAL", "FAR"}

\* the flags handed to read_thunk
ThunkClassTable ==
    "G" :> {"PRIVATE", "VIRTUAL"} @@ "H" :> {"PRIVATE", "VIRTUAL", "FAR"}
    @@ "O" :> {"PROTECTED", "VIRTUAL"}
    @@ "P" :> {"PROTECTED", "VIRTUAL", "FAR"}
    @@ "W" :> {"PUBLIC", "VIRTUAL"} @@ "X" :> {"PUBLIC", "VIRTUAL", "FAR"}

read_thunk(ps, func_class) ==
    LET adj == call("read_number", ps, NoVal)
    IN  IF ~IsOk(adj) THEN Fail(adj)
        ELSE Ok(func_class \cup {"THUNK"}, adj.ps)

read_func_class(ps, c) ==
    Returned("func_class", 0, ps,
        IF c \in DOMAIN FuncClassTable THEN Ok(FuncClassTable[c], ps)
        ELSE IF c \in DOMAIN ThunkClassTable
        THEN call("read_thunk", ps, ThunkClassTable[c])
        ELSE Err("unknown func class", ps))

QualifierTable ==
    "A" :> {} @@ "B" :> {"CONST"} @@ "C" :> {"VOLATILE"}
    @@ "D" :> {"CONST", "VOLATILE"}

\* read_qualifier gives <<StorageClass, ParserState>> and cannot fail
read_qualifier(ps) ==
    IF Len(ps.input) > 0 /\ ps.input[1] \in DOMAIN QualifierTable
    THEN Ok(QualifierTable[ps.input[1]], trim(ps, 1))
    ELSE Ok({}, ps)

CallingConvTable ==
    "A" :> "Cdecl" @@ "B" :> "Cdecl" @@ "C" :> "Pascal" @@ "E" :> "Thiscall"
    @@ "G" :> "Stdcall" @@ "I" :> "Fastcall"

read_calling_conv(ps) ==
    LET g == get(ps)
    IN  IF ~IsOk(g) THEN Fail(g)
        ELSE IF g.v \in DOMAIN CallingConvTable
        THEN Ok(CallingConvTable[g.v], g.ps)
        ELSE Err("unknown calling conv", g.ps)

StorageClassTable ==
    "A" :> {} @@ "B" :> {"CONST"} @@ "C" :> {"VOLATILE"}
    @@ "D" :> {"CONST", "VOLATILE"} @@ "E" :> {"FAR"}
    @@ "F" :> {"CONST", "FAR"} @@ "G" :> {"VOLATILE", "FAR"}
    @@ "H" :> {"CONST", "VOLATILE", "FAR"}

read_storage_class(ps) ==
    IF Len(ps.input) > 0 /\ ps.input[1] \in DOMAIN StorageClassTable
    THEN Ok(StorageClassTable[ps.input[1]], trim(ps, 1))
    ELSE Ok({}, ps)

read_storage_class_for_return(ps) ==
    IF ~consumes(ps, <<"?">>) THEN Ok({}, ps)
    ELSE LET g == get(consume(ps, <<"?">>))
         IN  IF ~IsOk(g) THEN Fail(g)
             ELSE IF g.v \in DOMAIN QualifierTable
             THEN Ok(QualifierTable[g.v], g.ps)
             ELSE Err("unknown storage class", g.ps)

\* ------------------------------------------------- the recursive descent

\* a name backreference whose bound test is off by one, the index clamped
\* to the table
backref_name_clamped(ps, d) ==
    IF d.v > Len(d.ps.memorized_names) \/ Len(d.ps.memorized_names) = 0
    THEN Err("name reference too large",
             Logged("backref_name", d.v, ps, d.ps, "err", NoVal))
    ELSE LET i == IF d.v < Len(d.ps.memorized_names)
                  THEN d.v + 1 ELSE Len(d.ps.memorized_names)
         IN  Ok(d.ps.memorized_names[i],
                Logged("backref_name", d.v, ps, d.ps, "ok",
                       d.ps.memorized_names[i]))

\* self.memorized_names[i].clone(), or the "name reference too large" error;
\* d is what consume_digit gave on ps
backref_name(ps, d) ==
    IF d.v >= Len(d.ps.memorized_names)
    THEN Err("name reference too large",
             Logged("backref_name", d.v, ps, d.ps, "err", NoVal))
    ELSE Ok(d.ps.memorized_names[d.v + 1],
            Logged("backref_name", d.v, ps, d.ps, "ok",
                   d.ps.memorized_names[d.v + 1]))

\* self.memorized_types[n].clone(), or the "invalid backreference" error
backref_type(ps, d) ==
    IF d.v >= Len(d.ps.memorized_types)
    THEN Err("invalid backreference",
             Logged("backref_type", d.v, ps, d.ps, "err", NoVal))
    ELSE Ok(d.ps.memorized_types[d.v + 1],
            Logged("backref_type", d.v, ps, d.ps, "ok",
                   d.ps.memorized_types[d.v + 1]))

\* guard_num * 10 + digit on i32, the digit already read
guard_step(guard_num, digit, ps) ==
    IF Mul10Overflows(guard_num) \/ AddOverflows(guard_num * 10, digit)
    THEN IF checks THEN Panic("attempt to add with overflow", ps)
         ELSE Ok(WrapAdd(WrapMul10(guard_num), digit), ps)
    ELSE Ok(guard_num * 10 + digit, ps)

\* while self.consume_hex_digit() {}
RECURSIVE skip_hex_digits(_)
skip_hex_digits(ps) ==
    LET h == consume_hex_digit(ps)
    IN  IF h.some
        THEN skip_hex_digits(Logged("hex_digit", 0, ps, h.ps, "ok", NoVal))
        ELSE ps

\* a template read in the tables of its surroundings
replace_tables_kept(ps) == ps

\* mem::replace(&mut self.memorized_names, vec![]) and the same for the
\* types: the state the template is read in
replace_tables(ps) ==
    [ps EXCEPT !.memorized_names = <<>>, !.memorized_types = <<>>]

\* a parse that does not test the first byte
not_mangled_untested(ps) == FALSE

\* if !self.consume(b"?"), the first test of ParserState::parse
not_mangled(ps) == ~consumes(ps, <<"?">>)

PrimTable ==
    "X" :> "Void" @@ "D" :> "Char" @@ "C" :> "Schar" @@ "E" :> "Uchar"
    @@ "F" :> "Short" @@ "G" :> "Ushort" @@ "H" :> "Int" @@ "I" :> "Uint"
    @@ "J" :> "Long" @@ "K" :> "Ulong" @@ "M" :> "Float" @@ "N" :> "Double"
    @@ "O" :> "Ldouble"

PrimTable_ ==
    "N" :> "Bool" @@ "J" :> "Int64" @@ "K" :> "Uint64" @@ "W" :> "Wchar"
    @@ "S" :> "Char16" @@ "U" :> "Char32"

NominalTable == "T" :> "Union" @@ "U" :> "Struct" @@ "V" :> "Class"

\* the 'while !self.consume(b"@")' loop of the $TSS guard number
tss_digits(ps, guard_num) ==
    IF consumes(ps, <<"@">>) THEN Ok(guard_num, consume(ps, <<"@">>))
    ELSE IF checks /\ Mul10Overflows(guard_num)
    THEN Panic("attempt to multiply with overflow", ps)
    ELSE LET d == consume_digit(ps)
         IN  IF ~d.some THEN Err("missing digit", ps)
             ELSE LET g == guard_step(guard_num, d.v, d.ps)
                  IN  IF ~IsOk(g) THEN Fail(g)
                      ELSE call("tss_digits",
                                Logged("tss_digit", d.v, ps, g.ps, "ok", g.v),
                                g.v)

read_template_name(ps) ==
    LET saved_memorized_names == ps.memorized_names
        saved_memorized_types == ps.memorized_types
        fresh == replace_tables(ps)
        name == call("read_unqualified_name", fresh, FALSE)
    IN  IF ~IsOk(name)
        THEN Fail([name EXCEPT !.ps = Logged("template", 0, ps, name.ps,
                                             name.st, NoVal)])
        ELSE LET template_params == call("read_params", name.ps, NoVal)
             IN  IF ~IsOk(template_params)
                 THEN Fail([template_params EXCEPT !.ps =
                               Logged("template", 0, ps, template_params.ps,
                                      template_params.st, NoVal)])
                 ELSE LET restored ==
                              [template_params.ps EXCEPT
                                 !.memorized_names = saved_memorized_names,
                                 !.memorized_types = saved_memorized_types]
                          v == Template(name.v, template_params.v)
                      IN  Ok(v, Logged("template", 0, ps, restored, "ok", v))

read_nested_name(ps) ==
    Returned("nested_name", 0, ps,
        LET d == consume_digit(ps)
        IN  IF d.some THEN backref_name(ps, d)
            ELSE IF consumes(ps, <<"?">>)
            THEN LET p1 == consume(ps, <<"?">>)
                 IN  IF peek(p1) = "?"
                     THEN LET r == call("ParserState_parse", p1, NoVal)
                          IN  IF ~IsOk(r)
                              THEN Fail([r EXCEPT !.ps =
                                      Logged("nested_parse", 0, p1, r.ps, r.st, NoVal)])
                              ELSE Ok(ParsedName(r.v),
                                      Logged("nested_parse", 0, p1, r.ps, "ok", r.v))
                     ELSE IF consumes(p1, <<"$">>)
                     THEN LET t == call("read_template_name", consume(p1, <<"$">>), NoVal)
                          IN  IF ~IsOk(t) THEN Fail(t)
                              ELSE Ok(t.v, memorize_name(t.ps, t.v))
                     ELSE IF consumes(p1, <<"A">>)
                     THEN LET p2 == consume(p1, <<"A">>)
                              p3 == IF consumes(p2, <<"0", "x">>)
                                    THEN skip_hex_digits(consume(p2, <<"0", "x">>))
                                    ELSE p2
                              e  == expect(p3, <<"@">>)
                          IN  IF ~IsOk(e) THEN Fail(e)
                              ELSE Ok(AnonymousNamespace, e.ps)
                     ELSE LET discriminator == call("read_number", p1, NoVal)
                          IN  IF ~IsOk(discriminator) THEN Fail(discriminator)
                              ELSE Ok(Discriminator(discriminator.v),
                                      discriminator.ps)
            ELSE LET n == call("read_string", ps, NoVal)
                 IN  IF ~IsOk(n) THEN Fail(n)
                     ELSE Ok(NonTemplate(n.v), memorize_name(n.ps, NonTemplate(n.v))))

read_unqualified_name(ps, function) ==
    Returned("unqualified_name", IF function THEN 1 ELSE 0, ps,
        LET d == consume_digit(ps)
        IN  IF d.some THEN backref_name(ps, d)
            ELSE IF consumes(ps, <<"?", "$">>)
            THEN LET t == call("read_template_name", consume(ps, <<"?", "$">>), NoVal)
                 IN  IF ~IsOk(t) THEN Fail(t)
                     ELSE IF ~function THEN Ok(t.v, memorize_name(t.ps, t.v))
                     ELSE Ok(t.v, t.ps)
            ELSE IF consumes(ps, <<"?">>)
            THEN call("read_operator", consume(ps, <<"?">>), NoVal)
            ELSE LET n == call("read_string", ps, NoVal)
                 IN  IF ~IsOk(n) THEN Fail(n)
                     ELSE Ok(NonTemplate(n.v), memorize_name(n.ps, NonTemplate(n.v))))

\* the 'while !self.consume(b"@")' loop of read_scope, names read so far
read_scope_loop(ps, names) ==
    IF consumes(ps, <<"@">>) THEN Ok(names, consume(ps, <<"@">>))
    ELSE LET name == call("read_nested_name", ps, NoVal)
         IN  IF ~IsOk(name) THEN Fail(name)
             ELSE call("read_scope_loop", name.ps, Append(names, name.v))

read_scope(ps) == call("read_scope_loop", ps, <<>>)

read_name(ps, function) ==
    LET name == call("read_unqualified_name", ps, function)
    IN  IF ~IsOk(name) THEN Fail(name)
        ELSE LET scope == call("read_scope", name.ps, NoVal)
             IN  IF ~IsOk(scope) THEN Fail(scope)
                 ELSE Ok(Symbol(name.v, scope.v), scope.ps)

read_func_type(ps) ==
    LET calling_conv == call("read_calling_conv", ps, NoVal)
    IN  IF ~IsOk(calling_conv) THEN Fail(calling_conv)
        ELSE LET return_type == call("read_var_type", calling_conv.ps, {})
             IN  IF ~IsOk(return_type) THEN Fail(return_type)
                 ELSE LET params == call("read_func_params", return_type.ps, NoVal)
                      IN  IF ~IsOk(params) THEN Fail(params)
                          ELSE Ok(NonMemberFunction(calling_conv.v, params.v,
                                                    {}, return_type.v),
                                  params.ps)

\* a return type that is given up when it cannot be read
read_func_return_type_lenient(ps, storage_class) ==
    IF consumes(ps, <<"@">>) THEN Ok(TNone, consume(ps, <<"@">>))
    ELSE LET r == call("read_var_type", ps, storage_class)
         IN  IF r.st = "err" THEN Ok(TNone, r.ps) ELSE r

read_func_return_type(ps, storage_class) ==
    IF consumes(ps, <<"@">>) THEN Ok(TNone, consume(ps, <<"@">>))
    ELSE call("read_var_type", ps, storage_class)

read_var_type(ps, sc) ==
    IF consumes(ps, <<"W", "4">>)
    THEN LET name == call("read_name", consume(ps, <<"W", "4">>), FALSE)
         IN  IF ~IsOk(name) THEN Fail(name)
             ELSE Ok(Nominal("Enum", name.v, sc), name.ps)
    ELSE IF consumes(ps, <<"A", "6">>)
    THEN LET func_type == call("read_func_type", consume(ps, <<"A", "6">>), NoVal)
         IN  IF ~IsOk(func_type) THEN Fail(func_type)
             ELSE Ok(Ref(func_type.v, sc), func_type.ps)
    ELSE IF consumes(ps, <<"P", "6">>)
    THEN LET func_type == call("read_func_type", consume(ps, <<"P", "6">>), NoVal)
         IN  IF ~IsOk(func_type) THEN Fail(func_type)
             ELSE Ok(Ptr(func_type.v, sc), func_type.ps)
    ELSE IF consumes(ps, <<"P", "8">>)
    THEN LET name == call("read_unqualified_name", consume(ps, <<"P", "8">>), TRUE)
         IN  IF ~IsOk(name) THEN Fail(name) ELSE
         LET e1 == expect(name.ps, <<"@">>)
         IN  IF ~IsOk(e1) THEN Fail(e1) ELSE
         LET e2 == required_E(e1.ps, 3)
         IN  IF ~IsOk(e2) THEN Fail(e2) ELSE
         LET access_class == read_qualifier(e2.ps)
             calling_conv == call("read_calling_conv", access_class.ps, NoVal)
         IN  IF ~IsOk(calling_conv) THEN Fail(calling_conv) ELSE
         LET scr == call("read_storage_class_for_return", calling_conv.ps, NoVal)
         IN  IF ~IsOk(scr) THEN Fail(scr) ELSE
         LET return_type == call("read_func_return_type", scr.ps, scr.v)
         IN  IF ~IsOk(return_type) THEN Fail(return_type) ELSE
         LET params == call("read_func_params", return_type.ps, NoVal)
         IN  IF ~IsOk(params) THEN Fail(params)
             ELSE Ok(MemberFunctionPointer(name.v, params.v, access_class.v,
                                           return_type.v),
                     params.ps)
    ELSE IF consumes(ps, <<"$">>)
    THEN call("read_var_type_dollar", consume(ps, <<"$">>), sc)
    ELSE call("read_var_type_tail", ps, sc)

\* read_var_type after 'if self.consume(b"$")' succeeded
read_var_type_dollar(ps, sc) ==
    IF consumes(ps, <<"0">>)
    THEN LET n == call("read_number", consume(ps, <<"0">>), NoVal)
         IN  IF ~IsOk(n) THEN Fail(n) ELSE Ok(Constant(n.v), n.ps)
    ELSE IF consumes(ps, <<"D">>)
    THEN LET n == call("read_number", consume(ps, <<"D">>), NoVal)
         IN  IF ~IsOk(n) THEN Fail(n)
             ELSE Ok(TemplateParameterWithIndex(n.v), n.ps)
    ELSE IF consumes(ps, <<"$", "B", "Y">>)
    THEN call("read_array", consume(ps, <<"$", "B", "Y">>), NoVal)
    ELSE IF consumes(ps, <<"$", "Q">>)
    THEN LET inner == call("read_pointee", consume(ps, <<"$", "Q">>), NoVal)
         IN  IF ~IsOk(inner) THEN Fail(inner)
             ELSE Ok(RValueRef(inner.v, sc), inner.ps)
    ELSE LET q == IF consumes(ps, <<"$", "C">>)
                  THEN read_qualifier(consume(ps, <<"$", "C">>))
                  ELSE Ok(sc, ps)
         IN  IF consumes(q.ps, <<"$", "V">>)
             THEN Ok(EmptyParameterPack, consume(q.ps, <<"$", "V">>))
             ELSE IF consumes(q.ps, <<"$", "T">>)
             THEN Ok(Nullptr, consume(q.ps, <<"$", "T">>))
             ELSE IF consumes(q.ps, <<"$", "A", "6">>)
             THEN call("read_func_type", consume(q.ps, <<"$", "A", "6">>), NoVal)
             ELSE call("read_var_type_tail", q.ps, q.v)

\* read_var_type from 'if self.consume(b"?")' on
read_var_type_tail(ps, sc) ==
    IF consumes(ps, <<"?">>)
    THEN LET n == call("read_number", consume(ps, <<"?">>), NoVal)
         IN  IF ~IsOk(n) THEN Fail(n)
             ELSE LET m == Neg32(n.v, n.ps)
                  IN  IF ~IsOk(m) THEN Fail(m)
                      ELSE Ok(TemplateParameterWithIndex(m.v), m.ps)
    ELSE IF has_digit(ps)
    THEN backref_type(ps, consume_digit(ps))
    ELSE LET g == get(ps)
         IN  IF ~IsOk(g) THEN Fail(g)
             ELSE IF g.v \in DOMAIN NominalTable
             THEN LET name == call("read_name", g.ps, FALSE)
                  IN  IF ~IsOk(name) THEN Fail(name)
                      ELSE Ok(Nominal(NominalTable[g.v], name.v, sc), name.ps)
             ELSE IF g.v \in {"A", "B", "P", "Q", "R", "S"}
             THEN LET inner == call("read_pointee", g.ps, NoVal)
                  IN  IF ~IsOk(inner) THEN Fail(inner)
                      ELSE Ok(CASE g.v = "A" -> Ref(inner.v, sc)
                                [] g.v = "B" -> Ref(inner.v, {"VOLATILE"})
                                [] g.v = "P" -> Ptr(inner.v, sc)
                                [] g.v = "Q" -> Ptr(inner.v, {"CONST"})
                                [] g.v = "R" -> Ptr(inner.v, {"VOLATILE"})
                                [] g.v = "S" ->
                                     Ptr(inner.v, {"CONST", "VOLATILE"}),
                              inner.ps)
             ELSE IF g.v = "Y" THEN call("read_array", g.ps, NoVal)
             ELSE IF g.v \in DOMAIN PrimTable
             THEN Ok(Prim(PrimTable[g.v], sc), g.ps)
             ELSE IF g.v = "_"
             THEN LET g2 == get(g.ps)
                  IN  IF ~IsOk(g2) THEN Fail(g2)
                      ELSE IF g2.v \in DOMAIN PrimTable_
                      THEN Ok(Prim(PrimTable_[g2.v], sc), g2.ps)
                      ELSE Err("unknown primitive type", g2.ps)
             ELSE Err("unknown primitive type", g.ps)

read_pointee(ps) ==
    LET p1 == optional_E(ps, 2)
        storage_class == read_storage_class(p1)
    IN  call("read_var_type", storage_class.ps, storage_class.v)

read_array(ps) ==
    LET dimension == call("read_number", ps, NoVal)
    IN  IF ~IsOk(dimension) THEN Fail(dimension)
        ELSE IF dimension.v <= 0
        THEN Err("invalid array dimension", dimension.ps)
        ELSE LET r == call("read_nested_array", dimension.ps, dimension.v)
             IN  IF ~IsOk(r) THEN Fail(r)
                 ELSE Returned("array", dimension.v, ps, Ok(r.v[1], r.ps))

\* gives the pair <<Type, StorageClass>>
read_nested_array(ps, dimension) ==
    IF dimension > 0
    THEN LET len == call("read_number", ps, NoVal)
         IN  IF ~IsOk(len) THEN Fail(len)
             ELSE LET r == call("read_nested_array", len.ps, dimension - 1)
                  IN  IF ~IsOk(r) THEN Fail(r)
                      ELSE Ok(<<Array(len.v, r.v[1], r.v[2]), r.v[2]>>, r.ps)
    ELSE LET p1 == consume(ps, <<"$", "$", "C">>)
             storage_class ==
                 IF ~consumes(ps, <<"$", "$", "C">>) THEN Ok({}, ps)
                 ELSE IF consumes(p1, <<"B">>)
                 THEN Ok({"CONST"}, consume(p1, <<"B">>))
                 ELSE IF consumes(p1, <<"C">>)
                 THEN Ok({"CONST", "VOLATILE"}, consume(p1, <<"C">>))
                 ELSE IF consumes(p1, <<"D">>)
                 THEN Ok({"CONST", "VOLATILE"}, consume(p1, <<"D">>))
                 ELSE IF ~consumes(p1, <<"A">>)
                 THEN Err("unknown storage class", p1)
                 ELSE Ok({}, consume(p1, <<"A">>))
             read == IF consumes(ps, <<"$", "$", "C">>)
                     THEN Returned("array_qualifier", 0, ps, storage_class)
                     ELSE storage_class
         IN  IF ~IsOk(read) THEN Fail(read)
             ELSE LET t == call("read_var_type", read.ps, {})
                  IN  IF ~IsOk(t) THEN Fail(t)
                      ELSE Ok(<<t.v, read.v>>, t.ps)

\* a parameter list that memorizes the single-letter types too
saves_bytes_always(used) == used > 0

\* if len - self.input.len() > 1: memorizing a single-letter type "doesn't
\* save anything"
saves_bytes(used) == used > 1

\* the 'while' loop of read_params, params read so far
read_params_loop(ps, params) ==
    IF consumes(ps, <<"@">>) \/ consumes(ps, <<"Z">>) \/ Len(ps.input) = 0
    THEN Ok(params, ps)
    ELSE IF has_digit(ps)
    THEN LET b == backref_type(ps, consume_digit(ps))
         IN  IF ~IsOk(b) THEN Fail(b)
             ELSE call("read_params_loop",
                      Logged("param", 0, ps, b.ps, "backref", b.v),
                      Append(params, b.v))
    ELSE LET len == Len(ps.input)
             param_type == call("read_var_type", ps, {})
         IN  IF ~IsOk(param_type) THEN Fail(param_type)
             ELSE LET used == len - Len(param_type.ps.input)
                      p1 == IF saves_bytes(used)
                            THEN memorize_type(param_type.ps, param_type.v)
                            ELSE param_type.ps
                  IN  call("read_params_loop",
                          Logged("param", used, ps, p1, "read", param_type.v),
                          Append(params, param_type.v))

read_params(ps) ==
    Returned("params", 0, ps,
        LET l == call("read_params_loop", ps, <<>>)
        IN  IF ~IsOk(l) THEN Fail(l)
            ELSE IF consumes(l.ps, <<"Z">>)
            THEN Ok(Append(l.v, VarArgs), consume(l.ps, <<"Z">>))
            ELSE IF Len(l.ps.input) = 0 THEN Ok(l.v, l.ps)
            ELSE LET e == expect(l.ps, <<"@">>)
                 IN  IF ~IsOk(e) THEN Fail(e) ELSE Ok(l.v, e.ps))

\* a read_func_params that takes the "Z" only at the end of the input
read_func_params_whole(ps) ==
    LET params == IF consumes(ps, <<"X">>)
                  THEN Ok(<<Prim("Void", {})>>, consume(ps, <<"X">>))
                  ELSE call("read_params", ps, NoVal)
    IN  IF ~IsOk(params) THEN Fail(params)
        ELSE LET e == expect(params.ps, <<"Z">>)
             IN  IF ~IsOk(e) THEN Fail(e)
                 ELSE IF e.ps.input # <<>>
                 THEN Err("expected, but got", e.ps)
                 ELSE Ok(params.v, e.ps)

read_func_params(ps) ==
    LET params == IF consumes(ps, <<"X">>)
                  THEN Ok(<<Prim("Void", {})>>, consume(ps, <<"X">>))
                  ELSE call("read_params", ps, NoVal)
    IN  IF ~IsOk(params) THEN Fail(params)
        ELSE LET e == expect(params.ps, <<"Z">>)
             IN  IF ~IsOk(e) THEN Fail(e) ELSE Ok(params.v, e.ps)

\* the 'c =>' arm of parse: a member function of class byte c
read_member_function(ps, c) ==
    LET func_class == call("read_func_class", ps, c)
    IN  IF ~IsOk(func_class) THEN Fail(func_class) ELSE
    LET access_class == IF "STATIC" \in func_class.v
                        THEN Ok({}, func_class.ps)
                        ELSE read_qualifier(optional_E(func_class.ps, 1))
        calling_conv == call("read_calling_conv", access_class.ps, NoVal)
    IN  IF ~IsOk(calling_conv) THEN Fail(calling_conv) ELSE
    LET scr == call("read_storage_class_for_return", calling_conv.ps, NoVal)
    IN  IF ~IsOk(scr) THEN Fail(scr) ELSE
    LET return_type == call("read_func_return_type", scr.ps, scr.v)
    IN  IF ~IsOk(return_type) THEN Fail(return_type) ELSE
    LET params == call("read_func_params", return_type.ps, NoVal)
    IN  IF ~IsOk(params) THEN Fail(params)
        ELSE Ok(MemberFunction(func_class.v, calling_conv.v, params.v,
                               access_class.v, return_type.v),
                params.ps)

\* the 'match c' of parse: the symbol's type, selected by byte c
read_symbol_type(ps, c) ==
    IF c \in {"0", "1", "2", "3", "4", "5"} THEN call("read_var_type", ps, {})
    ELSE IF c \in {"6", "7"}
    THEN LET access_class == read_qualifier(ps)
             scope == call("read_scope", access_class.ps, NoVal)
         IN  IF ~IsOk(scope) THEN Fail(scope)
             ELSE Ok(IF c = "6" THEN CXXVFTable(scope.v, access_class.v)
                                ELSE CXXVBTable(scope.v, access_class.v),
                     scope.ps)
    ELSE IF c = "Y"
    THEN LET calling_conv == call("read_calling_conv", ps, NoVal)
         IN  IF ~IsOk(calling_conv) THEN Fail(calling_conv) ELSE
         LET storage_class == call("read_storage_class_for_return", calling_conv.ps, NoVal)
         IN  IF ~IsOk(storage_class) THEN Fail(storage_class) ELSE
         LET return_type == call("read_var_type", storage_class.ps, storage_class.v)
         IN  IF ~IsOk(return_type) THEN Fail(return_type) ELSE
         LET params == call("read_func_params", return_type.ps, NoVal)
         IN  IF ~IsOk(params) THEN Fail(params)
             ELSE Ok(NonMemberFunction(calling_conv.v, params.v, {},
                                       return_type.v),
                     params.ps)
    ELSE call("read_member_function", ps, c)

ParserState_parse(ps) ==
    IF not_mangled(ps) THEN Err("does not start with b'?'", ps)
    ELSE LET p1 == consume(ps, <<"?">>)
    IN  IF consumes(p1, <<"$">>)
        THEN LET p2 == consume(p1, <<"$">>)
             IN  IF consumes(p2, <<"T", "S", "S">>)
                 THEN LET p3 == consume(p2, <<"T", "S", "S">>)
                          d == consume_digit(p3)
                      IN  IF ~d.some THEN Err("missing digit", p3) ELSE
                      LET guard_num == call("tss_digits", d.ps, d.v)
                      IN  IF ~IsOk(guard_num) THEN Fail(guard_num) ELSE
                      LET name == call("read_nested_name", guard_num.ps, NoVal)
                      IN  IF ~IsOk(name) THEN Fail(name) ELSE
                      LET scope == call("read_scope", name.ps, NoVal)
                      IN  IF ~IsOk(scope) THEN Fail(scope) ELSE
                      LET e == expect(scope.ps, <<"4", "H", "A">>)
                      IN  IF ~IsOk(e) THEN Fail(e)
                          ELSE Ok(ParseResult(Symbol(name.v, scope.v),
                                      ThreadSafeStaticGuard(guard_num.v)),
                                  e.ps)
                 ELSE LET name == call("read_template_name", p2, NoVal)
                      IN  IF ~IsOk(name) THEN Fail(name)
                          ELSE Ok(ParseResult(Symbol(name.v, <<>>), TNone),
                                  name.ps)
        ELSE LET symbol == call("read_name", p1, TRUE)
             IN  IF ~IsOk(symbol) THEN Fail(symbol) ELSE
             LET g == get(symbol.ps)
             IN  IF g.st = "panic" THEN Fail(g)
                 ELSE IF g.st = "ok"
                 THEN LET symbol_type == call("read_symbol_type", g.ps, g.v)
                      IN  IF ~IsOk(symbol_type) THEN Fail(symbol_type)
                          ELSE Ok(ParseResult(symbol.v, symbol_type.v),
                                  symbol_type.ps)
                 ELSE Ok(ParseResult(symbol.v, TNone), g.ps)

call(f, ps, x) ==
    CASE f = "read_number" -> read_number(ps)
      [] f = "read_string" -> read_string(ps)
      [] f = "read_operator_name" -> read_operator_name(ps)
      [] f = "read_operator" -> read_operator(ps)
      [] f = "read_thunk" -> read_thunk(ps, x)
      [] f = "read_func_class" -> read_func_class(ps, x)
      [] f = "read_calling_conv" -> read_calling_conv(ps)
      [] f = "read_storage_class_for_return" -> read_storage_class_for_return(ps)
      [] f = "ParserState_parse" -> ParserState_parse(ps)
      [] f = "tss_digits" -> tss_digits(ps, x)
      [] f = "read_template_name" -> read_template_name(ps)
      [] f = "read_nested_name" -> read_nested_name(ps)
      [] f = "read_unqualified_name" -> read_unqualified_name(ps, x)
      [] f = "read_scope_loop" -> read_scope_loop(ps, x)
      [] f = "read_scope" -> read_scope(ps)
      [] f = "read_name" -> read_name(ps, x)
      [] f = "read_func_type" -> read_func_type(ps)
      [] f = "read_func_return_type" -> read_func_return_type(ps, x)
      [] f = "read_var_type" -> read_var_type(ps, x)
      [] f = "read_var_type_dollar" -> read_var_type_dollar(ps, x)
      [] f = "read_var_type_tail" -> read_var_type_tail(ps, x)
      [] f = "read_pointee" -> read_pointee(ps)
      [] f = "read_array" -> read_array(ps)
      [] f = "read_nested_array" -> read_nested_array(ps, x)
      [] f = "read_params_loop" -> read_params_loop(ps, x)
      [] f = "read_params" -> read_params(ps)
      [] f = "read_func_params" -> read_func_params(ps)
      [] f = "read_member_function" -> read_member_function(ps, x)
      [] f = "read_symbol_type" -> read_symbol_type(ps, x)

\* pub fn parse: a ParserState of its own, then ParserState::parse
parse(inp) == call("ParserState_parse", NewParserState(inp), NoVal)

\* ------------------------------------------------------------ Serializer

\* The bytes of the string literals the serializer writes (and of the
\* operator spellings, which the parser hands over as &'static str).
BytesOf ==
    "ctor" :> <<"c", "t", "o", "r">>
    @@ "dtor" :> <<"d", "t", "o", "r">>
    @@ " " :> <<" ">>
    @@ "__cdecl " :> <<"_", "_", "c", "d", "e", "c", "l", " ">>
    @@ "__thiscall " :> <<"_", "_", "t", "h", "i", "s", "c", "a", "l", "l",
            " ">>
    @@ "__stdcall " :> <<"_", "_", "s", "t", "d", "c", "a", "l", "l", " ">>
    @@ "__fastcall " :> <<"_", "_", "f", "a", "s", "t", "c", "a", "l", "l",
            " ">>
    @@ "__regcall " :> <<"_", "_", "r", "e", "g", "c", "a", "l", "l", " ">>
    @@ "[thunk]:" :> <<"[", "t", "h", "u", "n", "k", "]", ":">>
    @@ "private: " :> <<"p", "r", "i", "v", "a", "t", "e", ":", " ">>
    @@ "protected: " :> <<"p", "r", "o", "t", "e", "c", "t", "e", "d", ":",
            " ">>
    @@ "public: " :> <<"p", "u", "b", "l", "i", "c", ":", " ">>
    @@ "static " :> <<"s", "t", "a", "t", "i", "c", " ">>
    @@ "virtual " :> <<"v", "i", "r", "t", "u", "a", "l", " ">>
    @@ "(" :> <<"(">>
    @@ "::*)" :> <<":", ":", "*", ")">>
    @@ "#template-parameter" :> <<"#", "t", "e", "m", "p", "l", "a", "t",
            "e", "-", "p", "a", "r", "a", "m", "e", "t", "e", "r">>
    @@ "'" :> <<"'">>
    @@ "TSS" :> <<"T", "S", "S">>
    @@ "..." :> <<".", ".", ".">>
    @@ "*" :> <<"*">>
    @@ "&" :> <<"&">>
    @@ "&&" :> <<"&", "&">>
    @@ "struct" :> <<"s", "t", "r", "u", "c", "t">>
    @@ "union" :> <<"u", "n", "i", "o", "n">>
    @@ "class" :> <<"c", "l", "a", "s", "s">>
    @@ "enum" :> <<"e", "n", "u", "m">>
    @@ "void" :> <<"v", "o", "i", "d">>
    @@ "bool" :> <<"b", "o", "o", "l">>
    @@ "char" :> <<"c", "h", "a", "r">>
    @@ "signed char" :> <<"s", "i", "g", "n", "e", "d", " ", "c", "h", "a",
            "r">>
    @@ "unsigned char" :> <<"u", "n", "s", "i", "g", "n", "e", "d", " ",
            "c", "h", "a", "r">>
    @@ "short" :> <<"s", "h", "o", "r", "t">>
    @@ "unsigned short" :> <<"u", "n", "s", "i", "g", "n", "e", "d", " ",
            "s", "h", "o", "r", "t">>
    @@ "int" :> <<"i", "n", "t">>
    @@ "unsigned int" :> <<"u", "n", "s", "i", "g", "n", "e", "d", " ", "i",
            "n", "t">>
    @@ "long" :> <<"l", "o", "n", "g">>
    @@ "unsigned long" :> <<"u", "n", "s", "i", "g", "n", "e", "d", " ",
            "l", "o", "n", "g">>
    @@ "int64_t" :> <<"i", "n", "t", "6", "4", "_", "t">>
    @@ "uint64_t" :> <<"u", "i", "n", "t", "6", "4", "_", "t">>
    @@ "wchar_t" :> <<"w", "c", "h", "a", "r", "_", "t">>
    @@ "float" :> <<"f", "l", "o", "a", "t">>
    @@ "double" :> <<"d", "o", "u", "b", "l", "e">>
    @@ "long double" :> <<"l", "o", "n", "g", " ", "d", "o", "u", "b", "l",
            "e">>
    @@ "char16_t" :> <<"c", "h", "a", "r", "1", "6", "_", "t">>
    @@ "char32_t" :> <<"c", "h", "a", "r", "3", "2", "_", "t">>
    @@ "std::nullptr_t" :> <<"s", "t", "d", ":", ":", "n", "u", "l", "l",
            "p", "t", "r", "_", "t">>
    @@ "const" :> <<"c", "o", "n", "s", "t">>
    @@ "volatile" :> <<"v", "o", "l", "a", "t", "i", "l", "e">>
    @@ ")" :> <<")">>
    @@ "'}" :> <<"'", "}">>
    @@ "[" :> <<"[">>
    @@ "]" :> <<"]">>
    @@ "," :> <<",">>
    @@ "#" :> <<"#">>
    @@ "#anonymous namespace#" :> <<"#", "a", "n", "o", "n", "y", "m", "o",
            "u", "s", " ", "n", "a", "m", "e", "s", "p", "a", "c", "e",
            "#">>
    @@ "::" :> <<":", ":">>
    @@ "~" :> <<"~">>
    @@ "#vbtable'{for #" :> <<"#", "v", "b", "t", "a", "b", "l", "e", "'",
            "{", "f", "o", "r", " ", "#">>
    @@ "<" :> <<"<">>
    @@ ">" :> <<">">>
    @@ "-" :> <<"-">>
    @@ "operator new" :> <<"o", "p", "e", "r", "a", "t", "o", "r", " ", "n",
            "e", "w">>
    @@ "operator delete" :> <<"o", "p", "e", "r", "a", "t", "o", "r", " ",
            "d", "e", "l", "e", "t", "e">>
    @@ "operator=" :> <<"o", "p", "e", "r", "a", "t", "o", "r", "=">>
    @@ "operator>>" :> <<"o", "p", "e", "r", "a", "t", "o", "r", ">", ">">>
    @@ "operator<<" :> <<"o", "p", "e", "r", "a", "t", "o", "r", "<", "<">>
    @@ "operator!" :> <<"o", "p", "e", "r", "a", "t", "o", "r", "!">>
    @@ "operator==" :> <<"o", "p", "e", "r", "a", "t", "o", "r", "=", "=">>
    @@ "operator!=" :> <<"o", "p", "e", "r", "a", "t", "o", "r", "!", "=">>
    @@ "operator[]" :> <<"o", "p", "e", "r", "a", "t", "o", "r", "[", "]">>
    @@ "operatorcast" :> <<"o", "p", "e", "r", "a", "t", "o", "r", "c", "a",
            "s", "t">>
    @@ "operator->" :> <<"o", "p", "e", "r", "a", "t", "o", "r", "-", ">">>
    @@ "operator*" :> <<"o", "p", "e", "r", "a", "t", "o", "r", "*">>
    @@ "operator++" :> <<"o", "p", "e", "r", "a", "t", "o", "r", "+", "+">>
    @@ "operator--" :> <<"o", "p", "e", "r", "a", "t", "o", "r", "-", "-">>
    @@ "operator-" :> <<"o", "p", "e", "r", "a", "t", "o", "r", "-">>
    @@ "operator+" :> <<"o", "p", "e", "r", "a", "t", "o", "r", "+">>
    @@ "operator&" :> <<"o", "p", "e", "r", "a", "t", "o", "r", "&">>
    @@ "operator->*" :> <<"o", "p", "e", "r", "a", "t", "o", "r", "-", ">",
            "*">>
    @@ "operator/" :> <<"o", "p", "e", "r", "a", "t", "o", "r", "/">>
    @@ "operator%" :> <<"o", "p", "e", "r", "a", "t", "o", "r", "%">>
    @@ "operator<" :> <<"o", "p", "e", "r", "a", "t", "o", "r", "<">>
    @@ "operator<=" :> <<"o", "p", "e", "r", "a", "t", "o", "r", "<", "=">>
    @@ "operator>" :> <<"o", "p", "e", "r", "a", "t", "o", "r", ">">>
    @@ "operator>=" :> <<"o", "p", "e", "r", "a", "t", "o", "r", ">", "=">>
    @@ "operator," :> <<"o", "p", "e", "r", "a", "t", "o", "r", ",">>
    @@ "operator()" :> <<"o", "p", "e", "r", "a", "t", "o", "r", "(", ")">>
    @@ "operator~" :> <<"o", "p", "e", "r", "a", "t", "o", "r", "~">>
    @@ "operator^" :> <<"o", "p", "e", "r", "a", "t", "o", "r", "^">>
    @@ "operator|" :> <<"o", "p", "e", "r", "a", "t", "o", "r", "|">>
    @@ "operator&&" :> <<"o", "p", "e", "r", "a", "t", "o", "r", "&", "&">>
    @@ "operator||" :> <<"o", "p", "e", "r", "a", "t", "o", "r", "|", "|">>
    @@ "operator*=" :> <<"o", "p", "e", "r", "a", "t", "o", "r", "*", "=">>
    @@ "operator+=" :> <<"o", "p", "e", "r", "a", "t", "o", "r", "+", "=">>
    @@ "operator-=" :> <<"o", "p", "e", "r", "a", "t", "o", "r", "-", "=">>
    @@ "operator/=" :> <<"o", "p", "e", "r", "a", "t", "o", "r", "/", "=">>
    @@ "operator%=" :> <<"o", "p", "e", "r", "a", "t", "o", "r", "%", "=">>
    @@ "operator>>=" :> <<"o", "p", "e", "r", "a", "t", "o", "r", ">", ">",
            "=">>
    @@ "operator<<=" :> <<"o", "p", "e", "r", "a", "t", "o", "r", "<", "<",
            "=">>
    @@ "operator&=" :> <<"o", "p", "e", "r", "a", "t", "o", "r", "&", "=">>
    @@ "operator|=" :> <<"o", "p", "e", "r", "a", "t", "o", "r", "|", "=">>
    @@ "operator^=" :> <<"o", "p", "e", "r", "a", "t", "o", "r", "^", "=">>
    @@ "#vftable'" :> <<"#", "v", "f", "t", "a", "b", "l", "e", "'">>
    @@ "#vbtable'" :> <<"#", "v", "b", "t", "a", "b", "l", "e", "'">>
    @@ "#vcall'" :> <<"#", "v", "c", "a", "l", "l", "'">>
    @@ "#typeof'" :> <<"#", "t", "y", "p", "e", "o", "f", "'">>
    @@ "#local static guard'" :> <<"#", "l", "o", "c", "a", "l", " ", "s",
            "t", "a", "t", "i", "c", " ", "g", "u", "a", "r", "d", "'">>
    @@ "#vbase destructor'" :> <<"#", "v", "b", "a", "s", "e", " ", "d",
            "e", "s", "t", "r", "u", "c", "t", "o", "r", "'">>
    @@ "#vector deleting destructor'" :> <<"#", "v", "e", "c", "t", "o",
            "r", " ", "d", "e", "l", "e", "t", "i", "n", "g", " ", "d", "e",
            "s", "t", "r", "u", "c", "t", "o", "r", "'">>
    @@ "#default constructor closure'" :> <<"#", "d", "e", "f", "a", "u",
            "l", "t", " ", "c", "o", "n", "s", "t", "r", "u", "c", "t", "o",
            "r", " ", "c", "l", "o", "s", "u", "r", "e", "'">>
    @@ "#scalar deleting destructor'" :> <<"#", "s", "c", "a", "l", "a",
            "r", " ", "d", "e", "l", "e", "t", "i", "n", "g", " ", "d", "e",
            "s", "t", "r", "u", "c", "t", "o", "r", "'">>
    @@ "#vector constructor iterator'" :> <<"#", "v", "e", "c", "t", "o",
            "r", " ", "c", "o", "n", "s", "t", "r", "u", "c", "t", "o", "r",
            " ", "i", "t", "e", "r", "a", "t", "o", "r", "'">>
    @@ "#vector destructor iterator'" :> <<"#", "v", "e", "c", "t", "o",
            "r", " ", "d", "e", "s", "t", "r", "u", "c", "t", "o", "r", " ",
            "i", "t", "e", "r", "a", "t", "o", "r", "'">>
    @@ "#vector vbase constructor iterator'" :> <<"#", "v", "e", "c", "t",
            "o", "r", " ", "v", "b", "a", "s", "e", " ", "c", "o", "n", "s",
            "t", "r", "u", "c", "t", "o", "r", " ", "i", "t", "e", "r", "a",
            "t", "o", "r", "'">>
    @@ "#virtual displacement map'" :> <<"#", "v", "i", "r", "t", "u", "a",
            "l", " ", "d", "i", "s", "p", "l", "a", "c", "e", "m", "e", "n",
            "t", " ", "m", "a", "p", "'">>
    @@ "#eh vector constructor iterator'" :> <<"#", "e", "h", " ", "v", "e",
            "c", "t", "o", "r", " ", "c", "o", "n", "s", "t", "r", "u", "c",
            "t", "o", "r", " ", "i", "t", "e", "r", "a", "t", "o", "r",
            "'">>
    @@ "#eh vector destructor iterator'" :> <<"#", "e", "h", " ", "v", "e",
            "c", "t", "o", "r", " ", "d", "e", "s", "t", "r", "u", "c", "t",
            "o", "r", " ", "i", "t", "e", "r", "a", "t", "o", "r", "'">>
    @@ "#eh vector vbase constructor iterator'" :> <<"#", "e", "h", " ",
            "v", "e", "c", "t", "o", "r", " ", "v", "b", "a", "s", "e", " ",
            "c", "o", "n", "s", "t", "r", "u", "c", "t", "o", "r", " ", "i",
            "t", "e", "r", "a", "t", "o", "r", "'">>
    @@ "#copy constructor closure'" :> <<"#", "c", "o", "p", "y", " ", "c",
            "o", "n", "s", "t", "r", "u", "c", "t", "o", "r", " ", "c", "l",
            "o", "s", "u", "r", "e", "'">>
    @@ "#local vftable'" :> <<"#", "l", "o", "c", "a", "l", " ", "v", "f",
            "t", "a", "b", "l", "e", "'">>
    @@ "#local vftable constructor closure'" :> <<"#", "l", "o", "c", "a",
            "l", " ", "v", "f", "t", "a", "b", "l", "e", " ", "c", "o", "n",
            "s", "t", "r", "u", "c", "t", "o", "r", " ", "c", "l", "o", "s",
            "u", "r", "e", "'">>
    @@ "operator new[]" :> <<"o", "p", "e", "r", "a", "t", "o", "r", " ",
            "n", "e", "w", "[", "]">>
    @@ "operator delete[]" :> <<"o", "p", "e", "r", "a", "t", "o", "r", " ",
            "d", "e", "l", "e", "t", "e", "[", "]">>
    @@ "#placement delete closure'" :> <<"#", "p", "l", "a", "c", "e", "m",
            "e", "n", "t", " ", "d", "e", "l", "e", "t", "e", " ", "c", "l",
            "o", "s", "u", "r", "e", "'">>
    @@ "#placement delete[] closure'" :> <<"#", "p", "l", "a", "c", "e",
            "m", "e", "n", "t", " ", "d", "e", "l", "e", "t", "e", "[", "]",
            " ", "c", "l", "o", "s", "u", "r", "e", "'">>
    @@ " co_await" :> <<" ", "c", "o", "_", "a", "w", "a", "i", "t">>
    @@ " CXXLiteralOperatorName" :> <<" ", "C", "X", "X", "L", "i", "t",
            "e", "r", "a", "l", "O", "p", "e", "r", "a", "t", "o", "r", "N",
            "a", "m", "e">>

\* Serializer { flags, w }; log is a history variable.
NewSerializer(f) == [flags |-> f, w |-> <<>>, log |-> <<>>]

SOk(s) == [st |-> "ok", why |-> "", s |-> s]

SPanic(why, s) == [st |-> "panic", why |-> why, s |-> s]

\* a; b?; ... : the next call runs when the last one returned Ok(())
Then(r, F(_)) == IF r.st # "ok" THEN r ELSE F(r.s)

\* write!(self.w, "{}", bytes)
write(s, bytes) == SOk([s EXCEPT !.w = @ \o bytes])

lit(s, str) == write(s, BytesOf[str])

\* the digits of n > 0, most significant first
RECURSIVE DecimalDigits(_)
DecimalDigits(n) ==
    IF n < 10 THEN <<DigitSeq[n + 1]>>
    ELSE Append(DecimalDigits(n \div 10), DigitSeq[(n % 10) + 1])

\* format!("{}", n) of an i32; the digits of -i32::MIN are those of
\* i32::MAX with a last digit one higher
Decimal(n) ==
    IF n = MinI32
    THEN <<"-">> \o Append(DecimalDigits(MaxI32 \div 10),
                           DigitSeq[(MaxI32 % 10) + 2])
    ELSE IF n < 0 THEN <<"-">> \o DecimalDigits(-n) ELSE DecimalDigits(n)

CallingConvName ==
    "Cdecl" :> "__cdecl " @@ "Thiscall" :> "__thiscall "
    @@ "Stdcall" :> "__stdcall " @@ "Fastcall" :> "__fastcall "
    @@ "_Regcall" :> "__regcall "

write_calling_conv(s, calling_conv) ==
    LET r == IF Len(s.w) > 0 /\ Last(s.w) = " " THEN SOk(s) ELSE lit(s, " ")
    IN  IF calling_conv = "Pascal" THEN r
        ELSE Then(r, LAMBDA s1 : lit(s1, CallingConvName[calling_conv]))

\* one call of write_space or write_space_pre: the last byte of the buffer
\* before the call ("" for an empty buffer) and whether a space was written
SpaceEvent(fn, s, wrote) ==
    [fn |-> fn, flags |-> s.flags, empty |-> Len(s.w) = 0,
     last |-> IF Len(s.w) = 0 THEN "" ELSE Last(s.w), wrote |-> wrote]

space_logged(fn, s, wrote) ==
    LET s1 == [s EXCEPT !.log = Append(@, SpaceEvent(fn, s, wrote))]
    IN  IF wrote THEN lit(s1, " ") ELSE SOk(s1)

\* write_space_pre with the bytes of write_space
write_space_pre_uniform(s) ==
    space_logged("write_space_pre", s,
        /\ Len(s.w) > 0
        /\ IF s.flags = "LessWhitespace"
           THEN is_ascii_alphabetic(Last(s.w))
           ELSE is_ascii_alphabetic(Last(s.w)) \/ Last(s.w) = "*"
                \/ Last(s.w) = "&" \/ Last(s.w) = ">")

write_space_pre(s) ==
    space_logged("write_space_pre", s,
        /\ Len(s.w) > 0
        /\ IF s.flags = "LessWhitespace"
           THEN is_ascii_alphabetic(Last(s.w))
           ELSE is_ascii_alphabetic(Last(s.w)) \/ Last(s.w) = "&"
                \/ Last(s.w) = ">")

write_space(s) ==
    space_logged("write_space", s,
        /\ Len(s.w) > 0
        /\ IF s.flags = "LessWhitespace"
           THEN is_ascii_alphabetic(Last(s.w))
           ELSE is_ascii_alphabetic(Last(s.w)) \/ Last(s.w) = "*"
                \/ Last(s.w) = "&" \/ Last(s.w) = ">")

\* if self.flags == DemangleFlags::LotsOfWhitespace { self.write_space()?; }
lots_space(s) == IF s.flags = "LotsOfWhitespace" THEN write_space(s) ELSE SOk(s)

IsFuncOrArray(t) == t.k \in {"MemberFunction", "NonMemberFunction", "Array"}

\* write!(self.w, "(") of write_pre (fn "open") and write!(self.w, ")") of
\* write_post (fn "close") for the pointer or reference t, with its entry
\* in the history
paren_logged(fn, s, t) ==
    lit([s EXCEPT !.log = Append(@, [fn |-> fn, flags |-> s.flags, t |-> t])],
        IF fn = "open" THEN "(" ELSE ")")

PrimName ==
    "Void" :> "void" @@ "Bool" :> "bool" @@ "Char" :> "char"
    @@ "Schar" :> "signed char" @@ "Uchar" :> "unsigned char"
    @@ "Short" :> "short" @@ "Ushort" :> "unsigned short" @@ "Int" :> "int"
    @@ "Uint" :> "unsigned int" @@ "Long" :> "long"
    @@ "Ulong" :> "unsigned long" @@ "Int64" :> "int64_t"
    @@ "Uint64" :> "uint64_t" @@ "Wchar" :> "wchar_t" @@ "Float" :> "float"
    @@ "Double" :> "double" @@ "Ldouble" :> "long double"
    @@ "Char16" :> "char16_t" @@ "Char32" :> "char32_t"

NominalName ==
    "Struct" :> "struct" @@ "Union" :> "union" @@ "Class" :> "class"
    @@ "Enum" :> "enum"

\* the keywords write_pre writes for a MemberFunction's FuncClass
write_func_class(s, func_class) ==
    LET opt(r, flag, str) ==
            IF flag \in func_class THEN Then(r, LAMBDA x : lit(x, str)) ELSE r
    IN  opt(opt(opt(opt(opt(opt(SOk(s), "THUNK", "[thunk]:"),
                                "PRIVATE", "private: "),
                            "PROTECTED", "protected: "),
                        "PUBLIC", "public: "),
                    "STATIC", "static "),
                "VIRTUAL", "virtual ")

\* the tail of write_pre: the const and volatile of storage_class
write_storage_class(s, storage_class) ==
    LET c == IF "CONST" \in storage_class
             THEN Then(write_space(s), LAMBDA x : lit(x, "const"))
             ELSE SOk(s)
    IN  IF "VOLATILE" \in storage_class
        THEN Then(Then(c, LAMBDA x : write_space(x)),
                  LAMBDA x : lit(x, "volatile"))
        ELSE c

\* The writers call one another as the readers do: a writer's call of a
\* writer is written scall(name, s, argument), the arguments in a tuple
\* where the writer takes several; scall, defined after the last of them,
\* hands the call to the writer of that name.
RECURSIVE scall(_, _, _)

write_pre(s, t) ==
    CASE t.k = "None" -> SOk(s)
      [] t.k = "MemberFunction" ->
            Then(Then(write_func_class(s, t.fc),
                      LAMBDA x : scall("write_pre", x, t.inner)),
                 LAMBDA x : write_calling_conv(x, t.cc))
      [] t.k = "MemberFunctionPointer" ->
            Then(Then(Then(Then(Then(scall("write_pre", s, t.inner),
                                     LAMBDA x : lots_space(x)),
                                LAMBDA x : lit(x, "(")),
                           LAMBDA x : lots_space(x)),
                      LAMBDA x : scall("write_one_name", x, t.name)),
                 LAMBDA x : lit(x, "::*)"))
      [] t.k = "NonMemberFunction" ->
            Then(scall("write_pre", s, t.inner),
                 LAMBDA x : write_calling_conv(x, t.cc))
      [] t.k \in {"CXXVBTable", "CXXVFTable"} ->
            write_storage_class(s, t.sc)
      [] t.k = "TemplateParameterWithIndex" ->
            write(s, BytesOf["#template-parameter"] \o Decimal(t.n)
                     \o BytesOf["'"])
      [] t.k = "ThreadSafeStaticGuard" ->
            write(s, BytesOf["TSS"] \o Decimal(t.n))
      [] t.k = "Constant" -> write(s, Decimal(t.n))
      [] t.k = "VarArgs" -> lit(s, "...")
      [] t.k \in {"Ptr", "Ref", "RValueRef"} ->
            LET inner == scall("write_pre", s, t.inner)
                paren == IF IsFuncOrArray(t.inner)
                         THEN Then(Then(inner, LAMBDA x : lots_space(x)),
                                   LAMBDA x : paren_logged("open", x, t))
                         ELSE inner
                mark == Then(Then(paren, LAMBDA x : lots_space(x)),
                             LAMBDA x : lit(x, CASE t.k = "Ptr" -> "*"
                                                 [] t.k = "Ref" -> "&"
                                                 [] OTHER -> "&&"))
            IN  Then(mark, LAMBDA x : write_storage_class(x, t.sc))
      [] t.k = "Array" ->
            Then(scall("write_pre", s, t.inner),
                 LAMBDA x : write_storage_class(x, t.sc))
      [] t.k \in DOMAIN NominalName ->
            Then(scall("write_class", s, <<t.sym, NominalName[t.k]>>),
                 LAMBDA x : write_storage_class(x, t.sc))
      [] t.k \in DOMAIN PrimName ->
            Then(lit(s, PrimName[t.k]),
                 LAMBDA x : write_storage_class(x, t.sc))
      [] t.k = "Nullptr" -> lit(s, "std::nullptr_t")
      [] t.k = "EmptyParameterPack" -> SOk(s)

\* the 'const' a function type's write_post writes for the this-qualifier
write_this_const(r, sc) ==
    IF "CONST" \in sc
    THEN Then(Then(r, LAMBDA x : lit(x, "const")), LAMBDA x : lots_space(x))
    ELSE r

write_post(s, t) ==
    CASE t.k \in {"MemberFunction", "NonMemberFunction",
                  "MemberFunctionPointer"} ->
            write_this_const(
                Then(Then(Then(lit(s, "("),
                               LAMBDA x : scall("write_types", x, t.params)),
                          LAMBDA x : lit(x, ")")),
                     LAMBDA x : scall("write_post", x, t.inner)),
                t.sc)
      [] t.k = "CXXVBTable" ->
            Then(scall("write_scope", s, t.scope), LAMBDA x : lit(x, "'}"))
      [] t.k \in {"Ptr", "Ref"} ->
            Then(IF IsFuncOrArray(t.inner) THEN paren_logged("close", s, t)
                                           ELSE SOk(s),
                 LAMBDA x : scall("write_post", x, t.inner))
      [] t.k = "Array" ->
            Then(write(s, BytesOf["["] \o Decimal(t.n) \o BytesOf["]"]),
                 LAMBDA x : scall("write_post", x, t.inner))
      [] OTHER -> SOk(s)

\* the 'for param in types.iter().take(n)' loop from entry i on
write_types_loop(s, types, i) ==
    IF i >= Len(types) THEN SOk(s)
    ELSE Then(Then(Then(scall("write_pre", s, types[i]),
                        LAMBDA x : scall("write_post", x, types[i])),
                   LAMBDA x : lit(x, ",")),
              LAMBDA x : scall("write_types_loop", x, <<types, i + 1>>))

write_types(s, types) ==
    IF Len(types) = 0
    THEN \* types.len() - 1 on usize
         IF checks THEN SPanic("attempt to subtract with overflow", s)
         ELSE SOk(s)
    ELSE Then(Then(scall("write_types_loop", s, <<types, 1>>),
                   LAMBDA x : scall("write_pre", x, Last(types))),
              LAMBDA x : scall("write_post", x, Last(types)))

write_class(s, names, str) ==
    Then(Then(lit(s, str), LAMBDA x : lit(x, " ")),
         LAMBDA x : scall("write_name", x, names))

\* pub fn serialize: a buffer of its own; serializer.serialize(..).unwrap(),
\* then String::from_utf8, which takes every buffer of ASCII bytes
serialize(inp, f) ==
    LET r == scall("Serializer_serialize", NewSerializer(f), inp)
    IN  [st |-> r.st, why |-> r.why, w |-> r.s.w, log |-> r.s.log]

\* write!(self.w, open{}close, serialize(val, self.flags).unwrap())
write_parsed(s, val, open, close) ==
    LET inner == serialize(val, s.flags)
    IN  IF inner.st # "ok"
        THEN SPanic(inner.why, [s EXCEPT !.log = @ \o inner.log])
        ELSE write([s EXCEPT !.log = @ \o inner.log],
                   open \o inner.w \o close)

write_one_name(s, name) ==
    CASE name.k = "Operator" ->
            Then(lots_space(s), LAMBDA x : lit(x, name.op))
      [] name.k = "NonTemplate" -> write(s, name.bytes)
      [] name.k = "Template" ->
            Then(scall("write_one_name", s, name.name),
                 LAMBDA x : scall("write_tmpl_params", x, name.params))
      [] name.k = "Discriminator" ->
            write(s, BytesOf["#"] \o Decimal(name.n) \o BytesOf["'"])
      [] name.k = "ParsedName" ->
            write_parsed(s, name.pr, BytesOf["#"], BytesOf["'"])
      [] name.k = "AnonymousNamespace" -> lit(s, "#anonymous namespace#")

\* the names of rev from entry i on, "::" before each but the first
write_scope_loop(s, rev, i) ==
    IF i > Len(rev) THEN SOk(s)
    ELSE Then(Then(IF i = 1 THEN SOk(s) ELSE lit(s, "::"),
                   LAMBDA x : scall("write_one_name", x, rev[i])),
              LAMBDA x : scall("write_scope_loop", x, <<rev, i + 1>>))

\* a scope written in the order it was parsed, innermost first
write_scope_forward(s, names) == scall("write_scope_loop", s, <<names, 1>>)

write_scope(s, names) == scall("write_scope_loop", s, <<Rev(names), 1>>)

\* a constructor spelled like the outermost scope entry
prev_outermost(names) == names.scope[Len(names.scope)]

\* names.scope.names.iter().nth(0), once it is known to be there
prev(names) == names.scope[1]

\* The history entry of a write_name that returned Ok(()): the buffer when
\* it was called (w0), after write_space_pre (w1), after write_scope (w2),
\* after the "::" that follows a scope (w3) and when it returned (w4).
name_logged(s, names, pre, chain, scope, done) ==
    IF done.st # "ok" THEN done
    ELSE SOk([done.s EXCEPT !.log =
                 Append(@, [fn |-> "write_name", flags |-> s.flags,
                            names |-> names, w0 |-> s.w, w1 |-> pre.s.w,
                            w2 |-> chain.s.w, w3 |-> scope.s.w,
                            w4 |-> done.s.w])])

write_name(s, names) ==
    LET pre == write_space_pre(s)
        chain == Then(pre, LAMBDA x : scall("write_scope", x, names.scope))
        scope == Then(chain, LAMBDA x : IF Len(names.scope) > 0
                                        THEN lit(x, "::") ELSE SOk(x))
        name == names.name
    IN  name_logged(s, names, pre, chain, scope,
        CASE name.k = "Operator" ->
            IF name.op = "ctor"
            THEN Then(scope, LAMBDA x :
                     IF Len(names.scope) = 0
                     THEN SPanic("If there's a ctor, there should be another name in this sequence", x)
                     ELSE scall("write_one_name", x, prev(names)))
            ELSE IF name.op = "dtor"
            THEN Then(scope, LAMBDA x :
                     IF Len(names.scope) = 0
                     THEN SPanic("If there's a dtor, there should be another name in this sequence", x)
                     ELSE Then(lit(x, "~"),
                               LAMBDA y : scall("write_one_name", y, prev(names))))
            ELSE IF name.op = "#vbtable'"
            THEN Then(scope, LAMBDA x : lit(x, "#vbtable'{for #"))
            ELSE Then(Then(scope, LAMBDA x : lots_space(x)),
                      LAMBDA x : lit(x, name.op))
          [] name.k = "NonTemplate" ->
            Then(scope, LAMBDA x : write(x, name.bytes))
          [] name.k = "Template" ->
            Then(Then(scope, LAMBDA x : scall("write_one_name", x, name.name)),
                 LAMBDA x : scall("write_tmpl_params", x, name.params))
          [] name.k = "Discriminator" ->
            Then(scope, LAMBDA x :
                     write(x, BytesOf["#"] \o Decimal(name.n) \o BytesOf["'"]))
          [] name.k = "ParsedName" ->
            Then(scope, LAMBDA x : write_parsed(x, name.pr, <<>>, <<>>))
          [] name.k = "AnonymousNamespace" ->
            Then(scope, LAMBDA x : SPanic("not supposed to be here", x)))

\* a test of the last byte that never finds ">"
ends_in_gt_never(w) == FALSE

\* if let Some(&b'>') = self.w.last()
ends_in_gt(w) == Len(w) > 0 /\ Last(w) = ">"

\* a list of which every entry is printed
printed_types_all(params) == params

\* let types = ...: the list without a last Type::EmptyParameterPack
printed_types(params) ==
    IF Len(params) > 0 /\ Last(params) = EmptyParameterPack
    THEN SubSeq(params, 1, Len(params) - 1)
    ELSE params

\* The history entry of a write_tmpl_params that returned Ok(()): the list
\* it was given, the buffer when it was called (w0), after the "<" (w1),
\* after the list (w2) and when it returned (w3).
tmpl_logged(s, params, open, list, done) ==
    IF done.st # "ok" THEN done
    ELSE SOk([done.s EXCEPT !.log =
                 Append(@, [fn |-> "write_tmpl_params", flags |-> s.flags,
                            params |-> params, w0 |-> s.w, w1 |-> open.s.w,
                            w2 |-> list.s.w, w3 |-> done.s.w])])

write_tmpl_params(s, params) ==
    LET types == printed_types(params)
        open == lit(s, "<")
        list == IF Len(types) > 0
                THEN Then(open, LAMBDA x : scall("write_types", x, types))
                ELSE open
        body == IF Len(types) > 0
                THEN Then(list, LAMBDA x : IF ends_in_gt(x.w)
                                           THEN lit(x, " ") ELSE SOk(x))
                ELSE open
    IN  tmpl_logged(s, params, open, list,
                    Then(body, LAMBDA x : lit(x, ">")))

Serializer_serialize(s, parse_result) ==
    Then(Then(scall("write_pre", s, parse_result.symbol_type),
              LAMBDA x : scall("write_name", x, parse_result.symbol)),
         LAMBDA x : scall("write_post", x, parse_result.symbol_type))

scall(f, s, x) ==
    CASE f = "Serializer_serialize" -> Serializer_serialize(s, x)
      [] f = "write_pre" -> write_pre(s, x)
      [] f = "write_post" -> write_post(s, x)
      [] f = "write_types" -> write_types(s, x)
      [] f = "write_types_loop" -> write_types_loop(s, x[1], x[2])
      [] f = "write_class" -> write_class(s, x[1], x[2])
      [] f = "write_one_name" -> write_one_name(s, x)
      [] f = "write_scope" -> write_scope(s, x)
      [] f = "write_scope_loop" -> write_scope_loop(s, x[1], x[2])
      [] f = "write_name" -> write_name(s, x)
      [] f = "write_tmpl_params" -> write_tmpl_params(s, x)

\* ------------------------------------------------------- the state machine

Modes == {"LessWhitespace", "LotsOfWhitespace"}

\* before the call
NotYet == [st |-> "none"]

\* Mangled names of the test suite and names built for the cases the tests
\* leave out; the bytes of each are spelled out below its comment.
Corpus ==
    \* variables and pointers
    \*   ?x@@3HA
    { <<"?", "x", "@", "@", "3", "H", "A">>
    \*   ?x@@3PEAHEA
    , <<"?", "x", "@", "@", "3", "P", "E", "A", "H", "E", "A">>
    \*   ?x@@3PEBHEB
    , <<"?", "x", "@", "@", "3", "P", "E", "B", "H", "E", "B">>
    \*   ?x@@3QEAHEB
    , <<"?", "x", "@", "@", "3", "Q", "E", "A", "H", "E", "B">>
    \*   ?x@@3AEBHEB
    , <<"?", "x", "@", "@", "3", "A", "E", "B", "H", "E", "B">>
    \*   ?x@ns@@3HA
    , <<"?", "x", "@", "n", "s", "@", "@", "3", "H", "A">>
    \*   ?x@@3PEAPEAHEA
    , <<"?", "x", "@", "@", "3", "P", "E", "A", "P", "E", "A", "H", "E",
      "A">>
    \*   ?x@@3PEAW4e@@EA
    , <<"?", "x", "@", "@", "3", "P", "E", "A", "W", "4", "e", "@", "@",
      "E", "A">>
    \*   ?x@@3PEBV?$t@H@@EB
    , <<"?", "x", "@", "@", "3", "P", "E", "B", "V", "?", "$", "t", "@",
      "H", "@", "@", "E", "B">>
    \*   ?x@@3P8k@@EAAHXZEQ1@
    , <<"?", "x", "@", "@", "3", "P", "8", "k", "@", "@", "E", "A", "A",
      "H", "X", "Z", "E", "Q", "1", "@">>
    \*   ?x@@3P8k@@AAHXZQ1@
    , <<"?", "x", "@", "@", "3", "P", "8", "k", "@", "@", "A", "A", "H",
      "X", "Z", "Q", "1", "@">>
    \*   ?x@@3P8k@@AEHXZA
    , <<"?", "x", "@", "@", "3", "P", "8", "k", "@", "@", "A", "E", "H",
      "X", "Z", "A">>
    \*   ?f@k@@QAEHXZ
    , <<"?", "f", "@", "k", "@", "@", "Q", "A", "E", "H", "X", "Z">>
    \*   ?x@@3PAHA
    , <<"?", "x", "@", "@", "3", "P", "A", "H", "A">>
    \*   ?A@B@C@@3HA
    , <<"?", "A", "@", "B", "@", "C", "@", "@", "3", "H", "A">>
    \*   ?x@@3$$QEAHEA
    , <<"?", "x", "@", "@", "3", "$", "$", "Q", "E", "A", "H", "E",
      "A">>
    \* arrays
    \*   ?x@@3PEAY02HEA
    , <<"?", "x", "@", "@", "3", "P", "E", "A", "Y", "0", "2", "H", "E",
      "A">>
    \*   ?x@@3PEAY02$$CBHEA
    , <<"?", "x", "@", "@", "3", "P", "E", "A", "Y", "0", "2", "$", "$",
      "C", "B", "H", "E", "A">>
    \*   ?x@@3PEAY02$$CCHEA
    , <<"?", "x", "@", "@", "3", "P", "E", "A", "Y", "0", "2", "$", "$",
      "C", "C", "H", "E", "A">>
    \*   ?x@@3PEAY02$$CDHEA
    , <<"?", "x", "@", "@", "3", "P", "E", "A", "Y", "0", "2", "$", "$",
      "C", "D", "H", "E", "A">>
    \*   ?x@@3PEAY02$$CAHEA
    , <<"?", "x", "@", "@", "3", "P", "E", "A", "Y", "0", "2", "$", "$",
      "C", "A", "H", "E", "A">>
    \*   ?x@@3PEAY02$$CEHEA
    , <<"?", "x", "@", "@", "3", "P", "E", "A", "Y", "0", "2", "$", "$",
      "C", "E", "H", "E", "A">>
    \*   ?g@@YAHQAY0EA@$$CBH@Z
    , <<"?", "g", "@", "@", "Y", "A", "H", "Q", "A", "Y", "0", "E", "A",
      "@", "$", "$", "C", "B", "H", "@", "Z">>
    \*   ?f@@YAHQBH@Z
    , <<"?", "f", "@", "@", "Y", "A", "H", "Q", "B", "H", "@", "Z">>
    \*   ?x@@3PEAY124HEA
    , <<"?", "x", "@", "@", "3", "P", "E", "A", "Y", "1", "2", "4", "H",
      "E", "A">>
    \*   ?x@@3PEAY124$$CBHEA
    , <<"?", "x", "@", "@", "3", "P", "E", "A", "Y", "1", "2", "4", "$",
      "$", "C", "B", "H", "E", "A">>
    \*   ?x@@3PEAY1NKM@5HEA
    , <<"?", "x", "@", "@", "3", "P", "E", "A", "Y", "1", "N", "K", "M",
      "@", "5", "H", "E", "A">>
    \*   ?x@@3$$QEAY02HEA
    , <<"?", "x", "@", "@", "3", "$", "$", "Q", "E", "A", "Y", "0", "2",
      "H", "E", "A">>
    \*   ?x@@3AEAY02HEA
    , <<"?", "x", "@", "@", "3", "A", "E", "A", "Y", "0", "2", "H", "E",
      "A">>
    \*   ?x@@3PEAY0IAAAAAAA@HEA
    , <<"?", "x", "@", "@", "3", "P", "E", "A", "Y", "0", "I", "A", "A",
      "A", "A", "A", "A", "A", "@", "H", "E", "A">>
    \*   ?x@@3PEAY0BAAAAAAAA@HEA
    , <<"?", "x", "@", "@", "3", "P", "E", "A", "Y", "0", "B", "A", "A",
      "A", "A", "A", "A", "A", "A", "@", "H", "E", "A">>
    \* functions and function pointers
    \*   ?x@@YAXMH@Z
    , <<"?", "x", "@", "@", "Y", "A", "X", "M", "H", "@", "Z">>
    \*   ?x@@YAHXZ
    , <<"?", "x", "@", "@", "Y", "A", "H", "X", "Z">>
    \*   ?x@@YAH@Z
    , <<"?", "x", "@", "@", "Y", "A", "H", "@", "Z">>
    \*   ?x@@3P6AHMNH@ZEA
    , <<"?", "x", "@", "@", "3", "P", "6", "A", "H", "M", "N", "H", "@",
      "Z", "E", "A">>
    \*   ?x@@3P6AHP6AHM@Z0@ZEA
    , <<"?", "x", "@", "@", "3", "P", "6", "A", "H", "P", "6", "A", "H",
      "M", "@", "Z", "0", "@", "Z", "E", "A">>
    \*   ?x@@YAHPEAVklass@@AEAV1@@Z
    , <<"?", "x", "@", "@", "Y", "A", "H", "P", "E", "A", "V", "k", "l",
      "a", "s", "s", "@", "@", "A", "E", "A", "V", "1", "@", "@", "Z">>
    \*   ?x@@YAXAEAH$$QEAHZZ
    , <<"?", "x", "@", "@", "Y", "A", "X", "A", "E", "A", "H", "$", "$",
      "Q", "E", "A", "H", "Z", "Z">>
    \*   ?x@@3$$QEA$$A6AXXZEA
    , <<"?", "x", "@", "@", "3", "$", "$", "Q", "E", "A", "$", "$", "A",
      "6", "A", "X", "X", "Z", "E", "A">>
    \*   ?x@@YAX$$QAY02H@Z
    , <<"?", "x", "@", "@", "Y", "A", "X", "$", "$", "Q", "A", "Y", "0",
      "2", "H", "@", "Z">>
    \* members, constructors, operators
    \*   ??0klass@@QEAA@XZ
    , <<"?", "?", "0", "k", "l", "a", "s", "s", "@", "@", "Q", "E", "A",
      "A", "@", "X", "Z">>
    \*   ?f@k@@DAXXZ
    , <<"?", "f", "@", "k", "@", "@", "D", "A", "X", "X", "Z">>
    \*   ?f@k@@FAEXXZ
    , <<"?", "f", "@", "k", "@", "@", "F", "A", "E", "X", "X", "Z">>
    \*   ?f@k@@LAXXZ
    , <<"?", "f", "@", "k", "@", "@", "L", "A", "X", "X", "Z">>
    \*   ?f@k@@NAEXXZ
    , <<"?", "f", "@", "k", "@", "@", "N", "A", "E", "X", "X", "Z">>
    \*   ?f@k@@TAXXZ
    , <<"?", "f", "@", "k", "@", "@", "T", "A", "X", "X", "Z">>
    \*   ?f@k@@VAEXXZ
    , <<"?", "f", "@", "k", "@", "@", "V", "A", "E", "X", "X", "Z">>
    \*   ?f@k@@H7AEXXZ
    , <<"?", "f", "@", "k", "@", "@", "H", "7", "A", "E", "X", "X",
      "Z">>
    \*   ?f@k@@ZAXXZ
    , <<"?", "f", "@", "k", "@", "@", "Z", "A", "X", "X", "Z">>
    \*   ??0x@@QAE@PAV?_P@@@Z
    , <<"?", "?", "0", "x", "@", "@", "Q", "A", "E", "@", "P", "A", "V",
      "?", "_", "P", "@", "@", "@", "Z">>
    \*   ??1klass@@QEAA@XZ
    , <<"?", "?", "1", "k", "l", "a", "s", "s", "@", "@", "Q", "E", "A",
      "A", "@", "X", "Z">>
    \*   ??0@QEAA@XZ
    , <<"?", "?", "0", "@", "Q", "E", "A", "A", "@", "X", "Z">>
    \*   ??4klass@@QEAAAEBV0@AEBV0@@Z
    , <<"?", "?", "4", "k", "l", "a", "s", "s", "@", "@", "Q", "E", "A",
      "A", "A", "E", "B", "V", "0", "@", "A", "E", "B", "V", "0", "@",
      "@", "Z">>
    \*   ?fn@?$klass@H@ns@@QEBAIXZ
    , <<"?", "f", "n", "@", "?", "$", "k", "l", "a", "s", "s", "@", "H",
      "@", "n", "s", "@", "@", "Q", "E", "B", "A", "I", "X", "Z">>
    \*   ?Release@ContentSignatureVerifier@@WBA@AGKXZ
    , <<"?", "R", "e", "l", "e", "a", "s", "e", "@", "C", "o", "n", "t",
      "e", "n", "t", "S", "i", "g", "n", "a", "t", "u", "r", "e", "V",
      "e", "r", "i", "f", "i", "e", "r", "@", "@", "W", "B", "A", "@",
      "A", "G", "K", "X", "Z">>
    \*   ??Bk@@QBE_NXZ
    , <<"?", "?", "B", "k", "@", "@", "Q", "B", "E", "_", "N", "X",
      "Z">>
    \*   ?m@k@@SAHXZ
    , <<"?", "m", "@", "k", "@", "@", "S", "A", "H", "X", "Z">>
    \*   ?m@k@@2HA
    , <<"?", "m", "@", "k", "@", "@", "2", "H", "A">>
    \*   ??1?$ns@$$CBVtxXP@@@@QAE@XZ
    , <<"?", "?", "1", "?", "$", "n", "s", "@", "$", "$", "C", "B", "V",
      "t", "x", "X", "P", "@", "@", "@", "@", "Q", "A", "E", "@", "X",
      "Z">>
    \*   ??0Klass@std@@AEAA@AEBV01@@Z
    , <<"?", "?", "0", "K", "l", "a", "s", "s", "@", "s", "t", "d", "@",
      "@", "A", "E", "A", "A", "@", "A", "E", "B", "V", "0", "1", "@",
      "@", "Z">>
    \*   ??__L@@YAXXZ
    , <<"?", "?", "_", "_", "L", "@", "@", "Y", "A", "X", "X", "Z">>
    \*   ??__Kx@@YAXXZ
    , <<"?", "?", "_", "_", "K", "x", "@", "@", "Y", "A", "X", "X",
      "Z">>
    \*   ??_C@@3HA
    , <<"?", "?", "_", "C", "@", "@", "3", "H", "A">>
    \*   ??__A@@3HA
    , <<"?", "?", "_", "_", "A", "@", "@", "3", "H", "A">>
    \* vftables, guards, anonymous namespaces
    \*   ??_7nsI@@6B@
    , <<"?", "?", "_", "7", "n", "s", "I", "@", "@", "6", "B", "@">>
    \*   ??_7W@?A@@6B@
    , <<"?", "?", "_", "7", "W", "@", "?", "A", "@", "@", "6", "B",
      "@">>
    \*   ??_8k@@7B@
    , <<"?", "?", "_", "8", "k", "@", "@", "7", "B", "@">>
    \*   ??_8x@@3HA
    , <<"?", "?", "_", "8", "x", "@", "@", "3", "H", "A">>
    \*   ??_8x@@6B@
    , <<"?", "?", "_", "8", "x", "@", "@", "6", "B", "@">>
    \*   ??_8x@@YAXXZ
    , <<"?", "?", "_", "8", "x", "@", "@", "Y", "A", "X", "X", "Z">>
    \*   ??_7x@@7B@
    , <<"?", "?", "_", "7", "x", "@", "@", "7", "B", "@">>
    \*   ?$TSS0@?A@@4HA
    , <<"?", "$", "T", "S", "S", "0", "@", "?", "A", "@", "@", "4", "H",
      "A">>
    \*   ?$TSS12@x@ns@@4HA
    , <<"?", "$", "T", "S", "S", "1", "2", "@", "x", "@", "n", "s", "@",
      "@", "4", "H", "A">>
    \*   ?$TSS007@x@@4HA
    , <<"?", "$", "T", "S", "S", "0", "0", "7", "@", "x", "@", "@", "4",
      "H", "A">>
    \*   ?$TSS2147483647@x@@4HA
    , <<"?", "$", "T", "S", "S", "2", "1", "4", "7", "4", "8", "3", "6",
      "4", "7", "@", "x", "@", "@", "4", "H", "A">>
    \*   ?$TSS2147483648@x@@4HA
    , <<"?", "$", "T", "S", "S", "2", "1", "4", "7", "4", "8", "3", "6",
      "4", "8", "@", "x", "@", "@", "4", "H", "A">>
    \*   ?$TSS4294967297@x@@4HA
    , <<"?", "$", "T", "S", "S", "4", "2", "9", "4", "9", "6", "7", "2",
      "9", "7", "@", "x", "@", "@", "4", "H", "A">>
    \*   ?$TSS12@x@?$t@HPAH@?A0xab@@4HA
    , <<"?", "$", "T", "S", "S", "1", "2", "@", "x", "@", "?", "$", "t",
      "@", "H", "P", "A", "H", "@", "?", "A", "0", "x", "a", "b", "@",
      "@", "4", "H", "A">>
    \*   ??_GDynamicFrameEventFilter@?A0xcdaa5fa8@@AAEPAXI@Z
    , <<"?", "?", "_", "G", "D", "y", "n", "a", "m", "i", "c", "F", "r",
      "a", "m", "e", "E", "v", "e", "n", "t", "F", "i", "l", "t", "e",
      "r", "@", "?", "A", "0", "x", "c", "d", "a", "a", "5", "f", "a",
      "8", "@", "@", "A", "A", "E", "P", "A", "X", "I", "@", "Z">>
    \* templates
    \*   ?x@@3PEAV?$tmpl@H@@EA
    , <<"?", "x", "@", "@", "3", "P", "E", "A", "V", "?", "$", "t", "m",
      "p", "l", "@", "H", "@", "@", "E", "A">>
    \*   ?x@ns@@3PEAV?$klass@HH@1@EA
    , <<"?", "x", "@", "n", "s", "@", "@", "3", "P", "E", "A", "V", "?",
      "$", "k", "l", "a", "s", "s", "@", "H", "H", "@", "1", "@", "E",
      "A">>
    \*   ??0?$Klass@V?$Mass@_N@@@std@@QEAA@AEBV01@@Z
    , <<"?", "?", "0", "?", "$", "K", "l", "a", "s", "s", "@", "V", "?",
      "$", "M", "a", "s", "s", "@", "_", "N", "@", "@", "@", "s", "t",
      "d", "@", "@", "Q", "E", "A", "A", "@", "A", "E", "B", "V", "0",
      "1", "@", "@", "Z">>
    \*   ??0?$A@_K@B@@QAE@$$QAV01@@Z
    , <<"?", "?", "0", "?", "$", "A", "@", "_", "K", "@", "B", "@", "@",
      "Q", "A", "E", "@", "$", "$", "Q", "A", "V", "0", "1", "@", "@",
      "Z">>
    \*   ??$templ_fun_with_ty_pack@$$V@@YAXXZ
    , <<"?", "?", "$", "t", "e", "m", "p", "l", "_", "f", "u", "n", "_",
      "w", "i", "t", "h", "_", "t", "y", "_", "p", "a", "c", "k", "@",
      "$", "$", "V", "@", "@", "Y", "A", "X", "X", "Z">>
    \*   ??$f@H$$V@@YAXXZ
    , <<"?", "?", "$", "f", "@", "H", "$", "$", "V", "@", "@", "Y", "A",
      "X", "X", "Z">>
    \*   ?$t@H$$V$$V@
    , <<"?", "$", "t", "@", "H", "$", "$", "V", "$", "$", "V", "@">>
    \*   ?$t@$$VH@
    , <<"?", "$", "t", "@", "$", "$", "V", "H", "@">>
    \*   ?$t@@
    , <<"?", "$", "t", "@", "@">>
    \*   ?x@@3V?$t@$$A6AXXZ@@A
    , <<"?", "x", "@", "@", "3", "V", "?", "$", "t", "@", "$", "$", "A",
      "6", "A", "X", "X", "Z", "@", "@", "A">>
    \*   ??$?RA6AXXZ$$V@SkOnce@@QAEXA6AXXZ@Z
    , <<"?", "?", "$", "?", "R", "A", "6", "A", "X", "X", "Z", "$", "$",
      "V", "@", "S", "k", "O", "n", "c", "e", "@", "@", "Q", "A", "E",
      "X", "A", "6", "A", "X", "X", "Z", "@", "Z">>
    \*   ??B?$function@$$A6AXXZ@std@@QBE_NXZ
    , <<"?", "?", "B", "?", "$", "f", "u", "n", "c", "t", "i", "o", "n",
      "@", "$", "$", "A", "6", "A", "X", "X", "Z", "@", "s", "t", "d",
      "@", "@", "Q", "B", "E", "_", "N", "X", "Z">>
    \*   ?$t@H$0A@$0?1@$$T
    , <<"?", "$", "t", "@", "H", "$", "0", "A", "@", "$", "0", "?", "1",
      "@", "$", "$", "T">>
    \*   ?x@ns@@3V?$t@V0@@1@A
    , <<"?", "x", "@", "n", "s", "@", "@", "3", "V", "?", "$", "t", "@",
      "V", "0", "@", "@", "1", "@", "A">>
    \*   ?x@ns@@3V?$t@V1@@1@A
    , <<"?", "x", "@", "n", "s", "@", "@", "3", "V", "?", "$", "t", "@",
      "V", "1", "@", "@", "1", "@", "A">>
    \*   ?f@@YAXPAHV?$t@0@@@Z
    , <<"?", "f", "@", "@", "Y", "A", "X", "P", "A", "H", "V", "?", "$",
      "t", "@", "0", "@", "@", "@", "Z">>
    \*   ?f@@YAXV?$t@PAH@@0@Z
    , <<"?", "f", "@", "@", "Y", "A", "X", "V", "?", "$", "t", "@", "P",
      "A", "H", "@", "@", "0", "@", "Z">>
    \*   ??$f@H@k@@YAXV0@@Z
    , <<"?", "?", "$", "f", "@", "H", "@", "k", "@", "@", "Y", "A", "X",
      "V", "0", "@", "@", "Z">>
    \*   ?$t@$0?IAAAAAAA@@
    , <<"?", "$", "t", "@", "$", "0", "?", "I", "A", "A", "A", "A", "A",
      "A", "A", "@", "@">>
    \* nested symbols
    \*   ?cached@?1??GetLong@BinaryPath@mozilla@@SA?AW4nsresult@@QA_W@Z@4_NA
    , <<"?", "c", "a", "c", "h", "e", "d", "@", "?", "1", "?", "?", "G",
      "e", "t", "L", "o", "n", "g", "@", "B", "i", "n", "a", "r", "y",
      "P", "a", "t", "h", "@", "m", "o", "z", "i", "l", "l", "a", "@",
      "@", "S", "A", "?", "A", "W", "4", "n", "s", "r", "e", "s", "u",
      "l", "t", "@", "@", "Q", "A", "_", "W", "@", "Z", "@", "4", "_",
      "N", "A">>
    \*   ?x@?1??f@@YAHXZ@4HA
    , <<"?", "x", "@", "?", "1", "?", "?", "f", "@", "@", "Y", "A", "H",
      "X", "Z", "@", "4", "H", "A">>
    \*   ?x@??f@@YAHXZ1@3HA
    , <<"?", "x", "@", "?", "?", "f", "@", "@", "Y", "A", "H", "X", "Z",
      "1", "@", "3", "H", "A">>
    \*   ?x@??f@@YAXPAH@Z@3PAHA
    , <<"?", "x", "@", "?", "?", "f", "@", "@", "Y", "A", "X", "P", "A",
      "H", "@", "Z", "@", "3", "P", "A", "H", "A">>
    \*   ?x@??f@@YAXPAH@Z@YAX0@Z
    , <<"?", "x", "@", "?", "?", "f", "@", "@", "Y", "A", "X", "P", "A",
      "H", "@", "Z", "@", "Y", "A", "X", "0", "@", "Z">>
    \* backreferences and full tables
    \*   ?x@0@3HA
    , <<"?", "x", "@", "0", "@", "3", "H", "A">>
    \*   ?x@1@3HA
    , <<"?", "x", "@", "1", "@", "3", "H", "A">>
    \*   ?x@01@3HA
    , <<"?", "x", "@", "0", "1", "@", "3", "H", "A">>
    \*   ?m@k@@QAE0XZ
    , <<"?", "m", "@", "k", "@", "@", "Q", "A", "E", "0", "X", "Z">>
    \*   ?x@@YAX0@Z
    , <<"?", "x", "@", "@", "Y", "A", "X", "0", "@", "Z">>
    \*   ?f@@YAXPAHH0@Z
    , <<"?", "f", "@", "@", "Y", "A", "X", "P", "A", "H", "H", "0", "@",
      "Z">>
    \*   ?a@b@c@d@e@f@g@h@i@j@k@l@9@3HA
    , <<"?", "a", "@", "b", "@", "c", "@", "d", "@", "e", "@", "f", "@",
      "g", "@", "h", "@", "i", "@", "j", "@", "k", "@", "l", "@", "9",
      "@", "3", "H", "A">>
    \*   ?a@b@c@d@e@f@g@h@i@j@k@l@b@3HA
    , <<"?", "a", "@", "b", "@", "c", "@", "d", "@", "e", "@", "f", "@",
      "g", "@", "h", "@", "i", "@", "j", "@", "k", "@", "l", "@", "b",
      "@", "3", "H", "A">>
    \*   ?f@@YAXPAHPADPAEPAFPAGPAIPAJPAKPAMPANPAOPA_N9PAH@Z
    , <<"?", "f", "@", "@", "Y", "A", "X", "P", "A", "H", "P", "A", "D",
      "P", "A", "E", "P", "A", "F", "P", "A", "G", "P", "A", "I", "P",
      "A", "J", "P", "A", "K", "P", "A", "M", "P", "A", "N", "P", "A",
      "O", "P", "A", "_", "N", "9", "P", "A", "H", "@", "Z">>
    \* not mangled
    \*   x@@3HA
    , <<"x", "@", "@", "3", "H", "A">>
    \*   _main
    , <<"_", "m", "a", "i", "n">>
    \*   @?x
    , <<"@", "?", "x">>
    \*   $?x
    , <<"$", "?", "x">>
    }

\* every truncation of a name
Prefixes(s) == { SubSeq(s, 1, n) : n \in 0..Len(s) }

\* Positions of the grammar from which every short continuation is tried:
\* the start, the operator code, the symbol type, a variable's type, a
\* name inside a type, a parameter list, the two escapes of the operator
\* code.
Stems ==
    { <<>>
    , <<"?", "?">>
    , <<"?", "x", "@", "@">>
    , <<"?", "x", "@", "@", "3">>
    , <<"?", "x", "@", "k", "@", "@", "3", "V">>
    , <<"?", "x", "@", "k", "@", "@", "Y", "A", "X">>
    , <<"?", "?", "_">>
    , <<"?", "?", "_", "_">>
    }

TailBytes == {"@", "?", "$", "0", "1", "A", "E", "H", "P", "X", "Y", "Z"}

\* the longest continuation tried
MaxTail == 3

Tails == UNION { [1..n -> TailBytes] : n \in 0..MaxTail }

Inputs ==
    UNION { Prefixes(c) : c \in Corpus }
    \cup { stem \o tail : stem \in Stems, tail \in Tails }

Init ==
    /\ checks \in BOOLEAN
    /\ input \in Inputs
    /\ flags = ""
    /\ pc = "start"
    /\ presult = NotYet
    /\ sresult = NotYet

\* parse(input)
Parse ==
    /\ pc = "start"
    /\ presult' = parse(input)
    /\ pc' = "parsed"
    /\ UNCHANGED <<checks, input, flags, sresult>>

\* serialize(&parse_result, f), the second half of demangle(input, f):
\* it runs when parse returned Ok
Serialize ==
    /\ pc = "parsed"
    /\ presult.st = "ok"
    /\ \E f \in Modes :
          /\ flags' = f
          /\ sresult' = serialize(presult.v, f)
    /\ pc' = "serialized"
    /\ UNCHANGED <<checks, input, presult>>

Next == Parse \/ Serialize

Spec == Init /\ [][Next]_vars

\* ------------------------------------------------------------ properties

\* the history of the parse, once parse has returned
PLog == IF pc = "start" THEN <<>> ELSE presult.ps.log

\* the history of the rendering, once serialize has returned
WLog == IF pc = "serialized" THEN sresult.log ELSE <<>>

\* the calls of write_space and write_space_pre among them
SLog == SelectSeq(WLog, LAMBDA e : e.fn \in {"write_space", "write_space_pre"})

NoDup(t) == \A i, j \in DOMAIN t : i # j => t[i] # t[j]

\* C1: reading past the end of the input is an error value: parse never
\* ends in the panic of get, whatever truncated name it is given.
C1_UnexpectedEndIsErr ==
    pc # "start" =>
        ~(presult.st = "panic" /\ presult.why = "Unexpected end of input")

\* C2: an input whose first byte is not '?', the empty input included, makes
\* parse fail with the not-mangled error before anything is read (no byte
\* consumed, nothing memorized, no other reader called), and demangle then
\* renders nothing.
C2_NotMangledFails ==
    (input = <<>> \/ input[1] # "?") =>
        /\ pc \in {"start", "parsed"}
        /\ sresult = NotYet
        /\ pc = "parsed" =>
              /\ presult.st = "err"
              /\ presult.why = "does not start with b'?'"
              /\ presult.v = NoVal
              /\ presult.ps.input = input
              /\ presult.ps.memorized_names = <<>>
              /\ presult.ps.memorized_types = <<>>
              /\ Len(PLog) = 1 /\ PLog[1].op = "error"

\* a name that lacks only the leading '?' has been refused
C2_Witness ==
    /\ pc = "parsed"
    /\ input = <<"x", "@", "@", "3", "H", "A">>
    /\ presult.st = "err"

\* C3: serialize completes, in either mode, for every ParseResult that parse
\* returned.
C3_SerializeCompletes == pc = "serialized" => sresult.st = "ok"

\* C4: parsing is all-or-nothing.  When a reader reports an error nothing
\* more is read, that error is the one parse returns, no ParseResult comes
\* with it and nothing is rendered; and parse fails only that way.
C4_AllOrNothing ==
    pc # "start" =>
        LET errors == { i \in DOMAIN PLog : PLog[i].op = "error" }
        IN  /\ presult.st = "err" <=> errors # {}
            /\ presult.st = "ok" => presult.v # NoVal
            /\ errors # {} =>
                  LET first == CHOOSE i \in errors : \A j \in errors : i <= j
                  IN  /\ errors = {first}
                      /\ presult.why = PLog[first].v
                      /\ presult.v = NoVal
                      /\ presult.ps.input = PLog[first].in1
                      /\ \A j \in DOMAIN PLog :
                            j > first =>
                               /\ PLog[j].op \in {"template", "nested_parse"}
                               /\ PLog[j].st = "err"
                      /\ sresult = NotYet

\* a parse that failed after it had read and memorized part of the name
C4_Witness ==
    /\ pc = "parsed"
    /\ presult.st = "err"
    /\ presult.why = "name reference too large"
    /\ presult.ps.memorized_names # <<>>
    /\ Len(presult.ps.input) < Len(input)

\* C5: at every call the history records, each table has at most TableCap
\* entries and no two equal ones; memorize_name and memorize_type only
\* append, and append exactly when the table is not full and does not hold
\* the entry yet, so entries stay in the order they were first memorized.
C5_Tables ==
    /\ \A i \in DOMAIN PLog :
          LET e == PLog[i]
          IN  /\ Len(e.names0) <= TableCap /\ Len(e.names1) <= TableCap
              /\ Len(e.types0) <= TableCap /\ Len(e.types1) <= TableCap
              /\ NoDup(e.names0) /\ NoDup(e.names1)
              /\ NoDup(e.types0) /\ NoDup(e.types1)
              /\ e.op = "memorize_name" =>
                    /\ e.types1 = e.types0
                    /\ IF Len(e.names0) < TableCap /\ ~Contains(e.names0, e.v)
                       THEN e.names1 = Append(e.names0, e.v)
                       ELSE e.names1 = e.names0
              /\ e.op = "memorize_type" =>
                    /\ e.names1 = e.names0
                    /\ IF Len(e.types0) < TableCap /\ ~Contains(e.types0, e.v)
                       THEN e.types1 = Append(e.types0, e.v)
                       ELSE e.types1 = e.types0
    /\ pc # "start" =>
          /\ Len(presult.ps.memorized_names) <= TableCap
          /\ Len(presult.ps.memorized_types) <= TableCap
          /\ NoDup(presult.ps.memorized_names)
          /\ NoDup(presult.ps.memorized_types)

\* a parse in which a full table was offered a new name and a table was
\* offered a name it already held
C5_Witness ==
    /\ pc = "parsed"
    /\ \E i \in DOMAIN PLog :
          /\ PLog[i].op = "memorize_name"
          /\ Len(PLog[i].names0) = TableCap
          /\ ~Contains(PLog[i].names0, PLog[i].v)
    /\ \E i \in DOMAIN PLog :
          /\ PLog[i].op = "memorize_name"
          /\ Contains(PLog[i].names0, PLog[i].v)

\* C6: template isolation.  What read_template_name gives, and the input it
\* leaves, are what it gives from empty tables, whatever the tables around
\* it hold; and when it returns Ok the tables are the ones from before the
\* call.
C6_TemplateIsolation ==
    \A i \in DOMAIN PLog :
        PLog[i].op = "template" =>
            LET e == PLog[i]
                alone == call("read_template_name", NewParserState(e.in0), NoVal)
            IN  /\ e.st = "ok" =>
                      /\ e.names1 = e.names0
                      /\ e.types1 = e.types0
                /\ alone.st = e.st
                /\ alone.v = e.v
                /\ alone.ps.input = e.in1

\* a template read while names were memorized around it, in which a
\* backreference resolved to a name of the template's own table
C6_Witness ==
    /\ pc = "parsed"
    /\ presult.st = "ok"
    /\ \E i, j \in DOMAIN PLog :
          /\ i < j
          /\ PLog[i].op = "backref_name" /\ PLog[i].st = "ok"
          /\ PLog[j].op = "template" /\ PLog[j].st = "ok"
          /\ PLog[j].names0 # <<>>
          /\ PLog[i].names0[1] # PLog[j].names0[1]

\* C7: a backreference digit i is resolved exactly when i is less than the
\* size of the table at that point; it then gives the entry at index i and
\* leaves both tables alone, and otherwise the parse fails.
C7_Backrefs ==
    \A k \in DOMAIN PLog :
        PLog[k].op \in {"backref_name", "backref_type"} =>
            LET e == PLog[k]
                table == IF e.op = "backref_name" THEN e.names0 ELSE e.types0
            IN  /\ e.st \in {"ok", "err"}
                /\ e.st = "ok" <=> e.i < Len(table)
                /\ e.names1 = e.names0 /\ e.types1 = e.types0
                /\ e.st = "ok" => e.v = table[e.i + 1]
                /\ e.st = "err" => presult.st = "err" /\ e.v = NoVal

\* a parse that resolved a name backreference and then met the first index
\* past the end of the table
C7_Witness ==
    /\ pc = "parsed"
    /\ \E k \in DOMAIN PLog :
          /\ PLog[k].op = "backref_name" /\ PLog[k].st = "ok"
    /\ \E k \in DOMAIN PLog :
          /\ PLog[k].op = "backref_name" /\ PLog[k].st = "err"
          /\ PLog[k].i = Len(PLog[k].names0)
          /\ PLog[k].i > 0

\* the input is '?', a qualified name, and nothing more
EndsAfterName ==
    LET ps == NewParserState(input)
        p1 == consume(ps, <<"?">>)
        name == call("read_name", p1, TRUE)
    IN  /\ consumes(ps, <<"?">>) /\ ~consumes(p1, <<"$">>)
        /\ IsOk(name) /\ name.ps.input = <<>>

\* C8: an input that ends right after the qualified name parses to that
\* name with symbol_type Type::None.
C8_NameOnlyIsOk ==
    pc = "parsed" /\ EndsAfterName =>
        /\ presult.st = "ok"
        /\ presult.v.symbol_type = TNone

\* what C10 says of one call, of write_space or of write_space_pre alike
UniformSpace(e) ==
    e.wrote <=>
        /\ ~e.empty
        /\ \/ is_ascii_alphabetic(e.last)
           \/ e.flags = "LotsOfWhitespace" /\ e.last \in {"*", "&", ">"}

\* C10 as stated: every separating space, the one before the symbol name
\* included, is written exactly when the buffer is not empty and ends in an
\* ASCII letter, or in LotsOfWhitespace in '*', '&' or '>'.
C10_UniformSpaceRule == \A i \in DOMAIN SLog : UniformSpace(SLog[i])

\* C10, amended: write_space follows that rule; write_space_pre, which
\* writes the space before the symbol name, follows it in LessWhitespace and
\* in LotsOfWhitespace writes the space after a letter, '&' or '>' but not
\* after '*'.  Either way the decision is a function of the last byte, the
\* mode and which of the two is called.
C10_SpaceRule ==
    \A i \in DOMAIN SLog :
        LET e == SLog[i]
        IN  /\ e.flags = flags
            /\ IF e.fn = "write_space_pre" /\ e.flags = "LotsOfWhitespace"
               THEN e.wrote <=>
                       ~e.empty /\ (is_ascii_alphabetic(e.last)
                                    \/ e.last \in {"&", ">"})
               ELSE UniformSpace(e)

\* a LotsOfWhitespace rendering in which the name follows '*' unspaced and
\* write_space did write a space after '*'
C10_Witness ==
    /\ pc = "serialized"
    /\ flags = "LotsOfWhitespace"
    /\ sresult.st = "ok"
    /\ \E i \in DOMAIN SLog :
          /\ SLog[i].fn = "write_space_pre"
          /\ SLog[i].last = "*" /\ ~SLog[i].wrote
    /\ \E i \in DOMAIN SLog :
          /\ SLog[i].fn = "write_space"
          /\ SLog[i].last = "*" /\ SLog[i].wrote

\* the calls of write_name that returned Ok(()), in the order they returned
NLog == SelectSeq(WLog, LAMBDA e : e.fn = "write_name")

\* the buffer b after write_one_name(n) in mode f
OneName(b, f, n) ==
    scall("write_one_name", [flags |-> f, w |-> b, log |-> <<>>], n).s.w

\* the buffer b after the entries scope[Len(scope)], ..., scope[i] in that
\* order, "::" between two of them
RECURSIVE ScopeText(_, _, _, _)
ScopeText(b, f, scope, i) ==
    IF i > Len(scope) THEN b
    ELSE LET outer == ScopeText(b, f, scope, i + 1)
         IN  OneName(IF i < Len(scope) THEN outer \o <<":", ":">> ELSE outer,
                     f, scope[i])

\* the identifiers of scope[Len(scope)], ..., scope[i], "::" between them
RECURSIVE PlainText(_, _)
PlainText(scope, i) ==
    IF i > Len(scope) THEN <<>>
    ELSE IF i = Len(scope) THEN scope[i].bytes
    ELSE PlainText(scope, i + 1) \o <<":", ":">> \o scope[i].bytes

\* C11: write_name writes the scope entries last-parsed first with "::"
\* between them, then "::" exactly when the scope is not empty, then the
\* innermost name: a name parsed as A@B@C@@ is written C::B::A and a name
\* with an empty scope is written with no "::".
C11_NamePrinting ==
    /\ \A i \in DOMAIN NLog :
          LET e == NLog[i]
              scope == e.names.scope
              name == e.names.name
          IN  /\ e.w2 = ScopeText(e.w1, e.flags, scope, 1)
              /\ (\A j \in DOMAIN scope : scope[j].k = "NonTemplate") =>
                     e.w2 = e.w1 \o PlainText(scope, 1)
              /\ e.w3 = IF scope = <<>> THEN e.w2 ELSE e.w2 \o <<":", ":">>
              /\ name.k = "NonTemplate" => e.w4 = e.w3 \o name.bytes
              /\ name.k = "NonTemplate" /\ scope = <<>> =>
                     e.w4 = e.w1 \o name.bytes
    /\ pc = "serialized" /\ flags = "LessWhitespace"
          /\ input = <<"?", "A", "@", "B", "@", "C", "@", "@", "3", "H", "A">>
       => sresult.w = <<"i", "n", "t", " ", "C", ":", ":", "B", ":", ":", "A">>

\* A@B@C@@ has been rendered, and so has a name with an empty scope inside
\* a rendering
C11_Witness ==
    /\ pc = "serialized"
    /\ sresult.st = "ok"
    /\ \E i \in DOMAIN NLog :
          /\ Len(NLog[i].names.scope) = 2
          /\ NLog[i].names.name = NonTemplate(<<"A">>)
          /\ NLog[i].names.scope[1] = NonTemplate(<<"B">>)
          /\ NLog[i].w4 = NLog[i].w1 \o <<"C", ":", ":", "B", ":", ":", "A">>

\* the name n is an operator or a template of one: the only names whose
\* spelling begins with the space write_one_name may put before an operator
RECURSIVE HeadIsOperator(_)
HeadIsOperator(n) ==
    \/ n.k = "Operator"
    \/ n.k = "Template" /\ HeadIsOperator(n.name)

\* C12: when the innermost name is the operator ctor, what write_name writes
\* after the scope and its "::" is the printed form of the scope entry that
\* was parsed first, the enclosing class, template arguments included; for
\* dtor it is "~" and then that form.  The form is the one the same entry
\* has in the scope written just before: [Klass<...>, std] is written
\* std::Klass<...>::Klass<...>.
C12_CtorDtor ==
    \A i \in DOMAIN NLog :
        LET e == NLog[i]
            scope == e.names.scope
            name == e.names.name
            tilde == IF name.op = "dtor" THEN <<"~">> ELSE <<>>
            before == IF Len(scope) = 1 THEN e.w1
                      ELSE ScopeText(e.w1, e.flags, scope, 2) \o <<":", ":">>
            form == Drop(e.w2, Len(before))
        IN  name.k = "Operator" /\ name.op \in {"ctor", "dtor"} =>
               /\ scope # <<>>
               /\ e.w4 = OneName(e.w3 \o tilde, e.flags, scope[1])
               /\ ~HeadIsOperator(scope[1]) => e.w4 = e.w3 \o tilde \o form
               /\ scope[1].k = "Template" => Last(e.w4) = ">"

\* ??0?$Klass@V?$Mass@_N@@@std@@QEAA@AEBV01@@Z has been rendered in
\* LotsOfWhitespace
C12_Witness ==
    /\ pc = "serialized"
    /\ sresult.st = "ok"
    /\ \E i \in DOMAIN NLog :
          /\ NLog[i].names.name = Operator("ctor")
          /\ Len(NLog[i].names.scope) = 2
          /\ NLog[i].names.scope[1].k = "Template"
          /\ NLog[i].w4 = NLog[i].w1 \o
                <<"s", "t", "d", ":", ":", "K", "l", "a", "s", "s", "<",
                "c", "l", "a", "s", "s", " ", "M", "a", "s", "s", "<",
                "b", "o", "o", "l", ">", " ", ">", ":", ":", "K", "l",
                "a", "s", "s", "<", "c", "l", "a", "s", "s", " ", "M",
                "a", "s", "s", "<", "b", "o", "o", "l", ">", " ", ">">>

\* the number of entries of the sequence w that are the byte c
CountByte(w, c) == Cardinality({ i \in DOMAIN w : w[i] = c })

\* C13: every "(" that write_pre writes before the "*", "&" or "&&" of a
\* pointer or reference to a function or array is closed by write_post of
\* the same type, which then writes the suffix of the inner type; so a
\* finished rendering has as many ")" as "(".
C13_ParensClosed ==
    pc = "serialized" /\ sresult.st = "ok" =>
        /\ \A i \in DOMAIN WLog :
              WLog[i].fn = "open" =>
                 \E j \in DOMAIN WLog :
                     j > i /\ WLog[j].fn = "close" /\ WLog[j].t = WLog[i].t
        /\ CountByte(sresult.w, "(") = CountByte(sresult.w, ")")

\* the j-th Type::Array wrapper of the array type t, from the outside
RECURSIVE Wrapper(_, _)
Wrapper(t, j) == IF j = 1 THEN t ELSE Wrapper(t.inner, j - 1)

\* C14: of the wrappers read_array builds for an array of several
\* dimensions only the innermost level carries the qualifier of "$$C", so
\* that write_pre writes the qualifier once whatever the number of
\* dimensions.
C14_QualifierOnce ==
    \A k \in DOMAIN PLog :
        PLog[k].op = "array" =>
            \A j \in 1..(PLog[k].i - 1) : Wrapper(PLog[k].v, j).sc = {}

\* C15: the parse of a nested symbol, begun by "??" inside a scope, leaves
\* the tables of the parse around it as they were: nothing memorized while
\* the nested symbol was read can be reached by a backreference after it.
C15_NestedIsolation ==
    \A k \in DOMAIN PLog :
        PLog[k].op = "nested_parse" /\ PLog[k].st = "ok" =>
            /\ PLog[k].names1 = PLog[k].names0
            /\ PLog[k].types1 = PLog[k].types0

\* the call that PLog[k] records read nothing outside the bytes the call
\* that PLog[kp] records read
Within(k, kp) ==
    /\ Len(PLog[k].in0) <= Len(PLog[kp].in0)
    /\ Len(PLog[k].in1) >= Len(PLog[kp].in1)

\* the entries of the parameter list whose return PLog[kp] records: the
\* parameters read inside it and inside no parameter of it
Entries(kp) ==
    { k \in 1..(kp - 1) :
        /\ PLog[k].op = "param" /\ Within(k, kp)
        /\ ~\E k2 \in 1..(kp - 1) :
               /\ k2 # k /\ PLog[k2].op = "param"
               /\ Within(k2, kp) /\ Within(k, k2) }

\* C16: an entry that read_params reads with read_var_type is offered to
\* memorized_types exactly when reading it consumed more than one byte; an
\* entry of one byte and an entry that is a digit backreference are not
\* offered, and the backreference is the table entry of that index.  The
\* list read_params returns holds the entries in the order of the input
\* (then VarArgs when the list ends in "Z").
C16_ParamsMemorized ==
    /\ \A k \in DOMAIN PLog :
          LET e == PLog[k]
          IN  /\ e.op = "param" /\ e.st = "read" =>
                    /\ e.i = Len(e.in0) - Len(e.in1) /\ e.i >= 1
                    /\ IF e.i > 1
                       THEN /\ k > 1
                            /\ PLog[k - 1].op = "memorize_type"
                            /\ PLog[k - 1].v = e.v
                            /\ PLog[k - 1].in1 = e.in1
                       ELSE /\ k > 1 => PLog[k - 1].op # "memorize_type"
                            /\ e.types1 = e.types0
              /\ e.op = "param" /\ e.st = "backref" =>
                    /\ Len(e.in0) - Len(e.in1) = 1
                    /\ is_digit10(e.in0[1])
                    /\ e.v = e.types0[DigitVal(e.in0[1]) + 1]
                    /\ e.types1 = e.types0
                    /\ PLog[k - 1].op = "backref_type"
              /\ e.op = "memorize_type" =>
                    /\ k < Len(PLog)
                    /\ PLog[k + 1].op = "param" /\ PLog[k + 1].st = "read"
                    /\ PLog[k + 1].i > 1 /\ PLog[k + 1].v = e.v
    /\ \A kp \in DOMAIN PLog :
          PLog[kp].op = "params" =>
             LET K == Entries(kp)
                 rank(k) == Cardinality({ k2 \in K : k2 <= k })
                 rest == IF K = {} THEN PLog[kp].in0
                         ELSE PLog[CHOOSE k \in K : \A k2 \in K : k2 <= k].in1
                 dots == rest # <<>> /\ rest[1] = "Z"
                 list == PLog[kp].v
             IN  /\ Len(list) = Cardinality(K) + (IF dots THEN 1 ELSE 0)
                 /\ dots => Last(list) = VarArgs
                 /\ \A k \in K :
                       /\ list[rank(k)] = PLog[k].v
                       /\ PLog[k].in0 =
                             IF rank(k) = 1 THEN PLog[kp].in0
                             ELSE PLog[CHOOSE k2 \in K :
                                          rank(k2) = rank(k) - 1].in1

\* a parameter list has been read that holds an entry of several bytes, an
\* entry of one byte and a backreference
C16_Witness ==
    /\ pc = "parsed"
    /\ presult.st = "ok"
    /\ \E kp \in DOMAIN PLog :
          /\ PLog[kp].op = "params"
          /\ \E a, b, c \in Entries(kp) :
                /\ PLog[a].st = "read" /\ PLog[a].i > 1
                /\ PLog[b].st = "read" /\ PLog[b].i = 1
                /\ PLog[c].st = "backref" /\ a < c

\* the table t after memorize_name(n)
Memorized(t, n) ==
    IF Len(t) < TableCap /\ ~Contains(t, n) THEN Append(t, n) ELSE t

\* C17: only identifiers and template names read outside function position
\* are memorized as names.  Reading an operator name, a discriminator or an
\* anonymous-namespace marker leaves the tables alone, a nested parsed
\* symbol is never an entry, the template name of a function (the innermost
\* name that parse or a pointer to member function reads) is not
\* memorized, and a backreference memorizes nothing; so index 0 is the
\* first identifier or class-template name: in ??4klass@@...V0@ it is klass.
C17_MemorizedNames ==
    /\ \A k \in DOMAIN PLog :
          LET e == PLog[k]
              kinds(t) == \A j \in DOMAIN t : t[j].k \in {"NonTemplate", "Template"}
          IN  /\ kinds(e.names0) /\ kinds(e.names1)
              /\ e.op = "memorize_name" => e.v.k \in {"NonTemplate", "Template"}
              /\ e.op \in {"unqualified_name", "nested_name"} =>
                    IF is_digit10(e.in0[1]) THEN e.names1 = e.names0
                    ELSE CASE e.v.k \in {"Operator", "Discriminator",
                                        "AnonymousNamespace"} ->
                                e.names1 = e.names0 /\ e.types1 = e.types0
                           [] e.v.k = "ParsedName" -> ~Contains(e.names1, e.v)
                           [] e.v.k = "Template" /\ e.op = "unqualified_name"
                              /\ e.i = 1 ->
                                e.names1 = e.names0 /\ e.types1 = e.types0
                           [] OTHER -> e.names1 = Memorized(e.names0, e.v)
    /\ pc # "start" /\ StartsWith(input, <<"?", "?", "4", "k", "l", "a", "s",
                                          "s", "@", "@">>) =>
          \A k \in DOMAIN PLog :
              PLog[k].op = "backref_name" /\ PLog[k].i = 0 /\ PLog[k].st = "ok"
                 => PLog[k].v = NonTemplate(<<"k", "l", "a", "s", "s">>)

\* ??4klass@@QEAAAEBV0@AEBV0@@Z has been parsed: the operator name was read
\* first and the backreference 0 gave klass
C17_Witness ==
    /\ pc = "parsed"
    /\ presult.st = "ok"
    /\ presult.v.symbol.name = Operator("operator=")
    /\ \E k \in DOMAIN PLog :
          /\ PLog[k].op = "backref_name" /\ PLog[k].i = 0
          /\ PLog[k].v = NonTemplate(<<"k", "l", "a", "s", "s">>)

\* the base-16 digits of n >= 0 in the letters A..P, most significant
\* first, none for 0
RECURSIVE HexDigits(_)
HexDigits(n) ==
    IF n = 0 THEN <<>>
    ELSE Append(HexDigits(n \div 16), HexSeq[(n % 16) + 1])

\* the digits of the magnitude of the i32 v
Magnitude(v) ==
    IF v = MinI32 THEN <<"I", "A", "A", "A", "A", "A", "A", "A">>
    ELSE HexDigits(IF v < 0 THEN -v ELSE v)

\* the run without its leading zeros
RECURSIVE Significant(_)
Significant(run) ==
    IF run # <<>> /\ run[1] = "A" THEN Significant(Drop(run, 1)) ELSE run

\* C18: read_number takes an optional "?" for the sign; then a decimal
\* digit d gives d + 1 and is the only byte read; otherwise the letters
\* A..P up to the first "@" give the number they spell in base 16, most
\* significant digit first (none of them: 0), and the run and the "@" are
\* read.  It reports a bad number only when a byte that is neither A..P nor
\* "@" comes before the "@" or there is no "@".
C18_ReadNumber ==
    \A k \in DOMAIN PLog :
        LET e == PLog[k]
            neg == e.in0 # <<>> /\ e.in0[1] = "?"
            b == IF e.op = "number" /\ neg THEN Drop(e.in0, 1) ELSE e.in0
            sign == IF e.op = "number" /\ neg THEN 1 ELSE 0
            pos == position_at(b, 1)
            run == SubSeq(b, 1, pos - 1)
            letters(r) == \A j \in DOMAIN r : \E h \in 1..16 : HexSeq[h] = r[j]
        IN  /\ e.op = "number" =>
                  IF b # <<>> /\ is_digit10(b[1])
                  THEN /\ e.v = IF neg THEN -(DigitVal(b[1]) + 1)
                                       ELSE DigitVal(b[1]) + 1
                       /\ Len(e.in0) - Len(e.in1) = sign + 1
                  ELSE /\ pos > 0 /\ letters(run)
                       /\ Len(e.in0) - Len(e.in1) = sign + pos
                       /\ IF neg THEN e.v <= 0 ELSE e.v >= 0
                       /\ Magnitude(e.v) = Significant(run)
            /\ e.op = "error" /\ e.v = "bad number" =>
                  /\ ~(b # <<>> /\ is_digit10(b[1]))
                  /\ pos = 0 \/ ~letters(run)

\* a is what is left of b after some bytes of its front are read
IsSuffix(a, b) ==
    /\ Len(a) <= Len(b)
    /\ a = SubSeq(b, Len(b) - Len(a) + 1, Len(b))

\* the steps that are one iteration of a loop: a name of the scope loop, a
\* parameter of the parameter-list loop, a digit of the $TSS loop, a digit of
\* the anonymous-namespace loop
LoopSteps == {"nested_name", "param", "tss_digit", "hex_digit"}

\* C19: parse never goes back in its input and its loops make progress: the
\* input left after a step is a suffix of the input before it, the input
\* left after successive steps only shrinks, what parse leaves is a suffix
\* of what it was given, and an iteration of the scope loop, of the
\* parameter-list loop, of the $TSS digit loop or of the anonymous-namespace
\* hex loop that does not end the loop reads at least one byte.  The input
\* being finite, parse ends.
C19_NoBacktracking ==
    /\ \A k \in DOMAIN PLog :
          /\ IsSuffix(PLog[k].in1, PLog[k].in0)
          /\ IsSuffix(PLog[k].in0, input)
          /\ k > 1 => IsSuffix(PLog[k].in1, PLog[k - 1].in1)
          /\ PLog[k].op \in LoopSteps => Len(PLog[k].in1) < Len(PLog[k].in0)
    /\ pc # "start" => IsSuffix(presult.ps.input, input)

\* a parse that went through the four loops: two names of a scope, two
\* parameters, a digit of a guard number and a digit of an anonymous
\* namespace were read
C19_Witness ==
    /\ pc = "parsed" /\ presult.st = "ok"
    /\ \A o \in LoopSteps : \E k \in DOMAIN PLog : PLog[k].op = o
    /\ \E k \in DOMAIN PLog :
          /\ PLog[k].op = "param" /\ k < Len(PLog)
          /\ \E j \in (k + 1)..Len(PLog) : PLog[j].op = "param"

\* the spellings read_operator_name can give
Spellings ==
    { OperatorTable[c] : c \in DOMAIN OperatorTable }
    \cup { OperatorTable_[c] : c \in DOMAIN OperatorTable_ }
    \cup {" co_await", " CXXLiteralOperatorName"}

\* the bytes read before inp end with the escape of an operator whose code
\* is in no table: "?c", "?_c", or "?__" not followed by L or K.  "?$" is
\* the escape of a template name, which read_unqualified_name tests first:
\* it is not the escape of an operator.
UnknownCode(read, inp) ==
    LET n == Len(read)
    IN  \/ /\ n >= 2 /\ read[n - 1] = "?"
           /\ read[n] \notin DOMAIN OperatorTable \cup {"_", "$"}
        \/ /\ n >= 3 /\ read[n - 2] = "?" /\ read[n - 1] = "_"
           /\ read[n] \notin DOMAIN OperatorTable_ \cup {"_"}
        \/ /\ n >= 3 /\ read[n - 2] = "?" /\ read[n - 1] = "_"
           /\ read[n] = "_"
           /\ inp = <<>> \/ inp[1] \notin {"L", "K"}

\* C20: every Name::Operator the parser gives, in the names it read and in
\* the symbol it returns, has one of the fixed spellings of the tables of
\* read_operator_name.  When the symbol name of an input of ASCII bytes is an
\* operator escape whose code is in no table, parse returns the
\* unknown-operator Err; and a reader reports the unknown-operator Err only
\* at such a code, and parse then returns that Err.
C20_OperatorTable ==
    /\ \A k \in DOMAIN PLog :
          LET e == PLog[k]
          IN  /\ e.op = "unqualified_name" /\ e.v.k = "Operator"
                    => e.v.op \in Spellings
              /\ e.op = "error" /\ e.v = "unknown operator name" =>
                    /\ UnknownCode(SubSeq(input, 1, Len(input) - Len(e.in0)),
                                   e.in0)
                    /\ presult.st = "err"
                    /\ presult.why = "unknown operator name"
    /\ pc # "start" /\ presult.st = "ok"
          /\ presult.v.symbol.name.k = "Operator"
          => presult.v.symbol.name.op \in Spellings
    /\ pc # "start" /\ Len(input) >= 2
          /\ input[1] = "?" /\ input[2] = "?"
          /\ (\E n \in 3..Len(input) :
                 /\ n <= 5
                 /\ UnknownCode(SubSeq(input, 2, n), Drop(input, n))
                 /\ \A j \in 3..(n - 1) : input[j] = "_")
          => presult.st = "err" /\ presult.why = "unknown operator name"

\* a parse that read the operator of a constructor and then met, in the
\* class name of a parameter, the code P after "?_", which is in no table
C20_Witness ==
    /\ pc = "parsed" /\ presult.st = "err"
    /\ presult.why = "unknown operator name"
    /\ \E k \in DOMAIN PLog :
          /\ PLog[k].op = "unqualified_name"
          /\ PLog[k].v = Operator("ctor")
    /\ \E k \in DOMAIN PLog :
          /\ PLog[k].op = "error"
          /\ PLog[k].v = "unknown operator name"
          /\ LET n == Len(input) - Len(PLog[k].in0)
             IN  SubSeq(input, n - 2, n) = <<"?", "_", "P">>

\* C21: when write_name has written the phrase of the vbtable operator for
\* the name of the symbol, which opens a brace, the text that serialize
\* returns has the closing "'}" after it.
C21_VbtableBrace ==
    pc = "serialized" /\ sresult.st = "ok" =>
        \A i \in DOMAIN NLog :
            /\ NLog[i].names = presult.v.symbol
            /\ NLog[i].names.name = Operator("#vbtable'")
            /\ StartsWith(sresult.w, NLog[i].w4)
            => \E j \in (Len(NLog[i].w4) + 1)..(Len(sresult.w) - 1) :
                   sresult.w[j] = "'" /\ sresult.w[j + 1] = "}"

\* C22: Name::AnonymousNamespace is never the innermost name of a symbol:
\* not of the ParseResult that parse returns, not of the ParseResult of a
\* nested parse, not of a name read by read_unqualified_name for a symbol or
\* a nominal type.
C22_AnonymousInScopeOnly ==
    /\ pc # "start" /\ presult.st = "ok"
          => presult.v.symbol.name # AnonymousNamespace
    /\ \A k \in DOMAIN PLog :
          /\ PLog[k].op = "nested_parse" /\ PLog[k].st = "ok"
                => PLog[k].v.symbol.name # AnonymousNamespace
          /\ PLog[k].op = "unqualified_name"
                => PLog[k].v # AnonymousNamespace

\* the calls of write_tmpl_params that returned Ok(()), once serialize has
\* returned
TLog == SelectSeq(WLog, LAMBDA e : e.fn = "write_tmpl_params")

\* the buffer after write_types(types) on the buffer w in mode f
TypesText(w, f, types) ==
    scall("write_types", [flags |-> f, w |-> w, log |-> <<>>], types).s.w

\* C23: write_tmpl_params writes "<", then the arguments as write_types
\* separates them, then ">"; when the text written for a list that is not
\* empty ends in ">", one space comes before the closing ">", and otherwise
\* none; an empty list is written "<>".
C23_TemplateArguments ==
    \A i \in DOMAIN TLog :
        LET e == TLog[i]
            text == SubSeq(e.w2, Len(e.w1) + 1, Len(e.w2))
        IN  /\ e.w1 = e.w0 \o <<"<">>
            /\ StartsWith(e.w2, e.w1)
            /\ e.params # <<>> /\ Last(e.params) # EmptyParameterPack
                  => e.w2 = TypesText(e.w1, e.flags, e.params)
            /\ e.w3 = IF text # <<>> /\ Last(text) = ">"
                      THEN e.w2 \o <<" ", ">">>
                      ELSE e.w2 \o <<">">>
            /\ e.params = <<>> => e.w3 = e.w0 \o <<"<", ">">>

\* an argument list whose text ended in ">" was closed with " >", and in the
\* same rendering another list was closed with ">" alone
C23_Witness ==
    /\ pc = "serialized" /\ sresult.st = "ok"
    /\ \E i \in DOMAIN TLog :
          /\ TLog[i].params # <<>>
          /\ Last(TLog[i].w2) = ">"
          /\ TLog[i].w3 = TLog[i].w2 \o <<" ", ">">>
    /\ \E i \in DOMAIN TLog :
          /\ TLog[i].params # <<>>
          /\ Last(TLog[i].w2) # ">"
          /\ TLog[i].w3 = TLog[i].w2 \o <<">">>

\* C24: when the last entry of the list given to write_tmpl_params is
\* Type::EmptyParameterPack, what is written is what the list without that
\* entry gives: "<", the entries before it as write_types separates them,
\* no comma and no text for the last one, and the closing ">"; when the
\* sentinel is the only entry, "<>".
C24_EmptyPackDropped ==
    \A i \in DOMAIN TLog :
        LET e == TLog[i]
            n == Len(e.params)
            front == SubSeq(e.params, 1, n - 1)
            text == IF front = <<>> THEN e.w1
                    ELSE TypesText(e.w1, e.flags, front)
        IN  n > 0 /\ e.params[n] = EmptyParameterPack =>
              /\ e.w2 = text
              /\ e.w3 \in {text \o <<">">>, text \o <<" ", ">">>}
              /\ n = 1 => e.w3 = e.w0 \o <<"<", ">">>

\* a list of int and the sentinel, as in ??$f@H$$V@@YAXXZ, has been written
\* "<int>"
C24_Witness ==
    /\ pc = "serialized" /\ sresult.st = "ok"
    /\ \E i \in DOMAIN TLog :
          /\ TLog[i].params = <<Prim("Int", {}), EmptyParameterPack>>
          /\ TLog[i].w3 = TLog[i].w0 \o <<"<", "i", "n", "t", ">">>

\* the bytes A..X of the member functions, in order
ClassBytes ==
    <<"A", "B", "C", "D", "E", "F", "G", "H", "I", "J", "K", "L", "M", "N",
      "O", "P", "Q", "R", "S", "T", "U", "V", "W", "X">>

\* the flags of the grammar for the eight bytes of an access group: near,
\* far, static near, static far, virtual near, virtual far, and the two
\* thunks
GroupFlags ==
    <<{}, {"FAR"}, {"STATIC"}, {"STATIC", "FAR"}, {"VIRTUAL"},
      {"VIRTUAL", "FAR"}, {"VIRTUAL", "THUNK"}, {"VIRTUAL", "FAR", "THUNK"}>>

AccessFlags == <<"PRIVATE", "PROTECTED", "PUBLIC">>

\* the bytes the grammar lists as far
FarBytes ==
    {"B", "D", "F", "H", "J", "L", "N", "P", "R", "T", "V", "X", "Z"}

\* C25: the class read_func_class gives for the byte c of a member function
\* is the access flag of the group of c (A..H private, I..P protected, Q..X
\* public) with the flags of the place of c in its group, the same in the
\* three groups; and FAR is in the class exactly for the bytes B, D, F, H,
\* J, L, N, P, R, T, V, X, Z.
C25_FuncClassUniform ==
    \A k \in DOMAIN PLog :
        LET e == PLog[k]
            c == input[Len(input) - Len(e.in0)]
        IN  e.op = "func_class" =>
              /\ \A n \in DOMAIN ClassBytes :
                    ClassBytes[n] = c =>
                       e.v = {AccessFlags[((n - 1) \div 8) + 1]}
                                \cup GroupFlags[((n - 1) % 8) + 1]
              /\ "FAR" \in e.v <=> c \in FarBytes

\* C26: the letter after "$$C" in read_nested_array gives the StorageClass
\* that read_qualifier gives for it (A none, B const, C volatile, D const
\* and volatile) and is read; read_nested_array reports an unknown storage
\* class only when the byte after "$$C" is none of the four.
C26_ArrayQualifier ==
    \A k \in DOMAIN PLog :
        LET e == PLog[k]
            read == Len(input) - Len(e.in0)
        IN  /\ e.op = "array_qualifier" =>
                  /\ Len(e.in0) >= 4
                  /\ e.in0[4] \in {"A", "B", "C", "D"}
                  /\ e.v = read_qualifier(NewParserState(Drop(e.in0, 3))).v
                  /\ e.in1 = Drop(e.in0, 4)
            /\ e.op = "error" /\ e.v = "unknown storage class"
                  /\ read >= 3
                  /\ SubSeq(input, read - 2, read) = <<"$", "$", "C">>
                  => e.in0 = <<>> \/ e.in0[1] \notin {"A", "B", "C", "D"}

\* C27: wherever the parser reads the 64-bit pointer marker, for the this
\* pointer of a member function, for a pointee and for a pointer to a member
\* function, the read succeeds whether the marker is there or not: an "E"
\* is read when it is the next byte, and otherwise no byte is read.
C27_MarkerOptional ==
    \A k \in DOMAIN PLog :
        LET e == PLog[k]
        IN  e.op = "marker" =>
              /\ e.st = "ok"
              /\ e.in1 = IF StartsWith(e.in0, <<"E">>)
                         THEN Drop(e.in0, 1) ELSE e.in0

\* what is put after the bytes a parse has read: nothing, or one byte
Continuations == {<<>>} \cup { <<b>> : b \in TailBytes }

\* C28: parse does not need the whole input.  When it returns a ParseResult
\* with a symbol type, the bytes it has not read are ignored: the bytes it
\* has read, followed by nothing or by anything else, give an equal
\* ParseResult and leave what follows unread.
C28_TrailingIgnored ==
    pc = "parsed" /\ presult.st = "ok" /\ presult.v.symbol_type # TNone =>
        LET read == SubSeq(input, 1, Len(input) - Len(presult.ps.input))
        IN  \A r \in Continuations :
                LET o == parse(read \o r)
                IN  o.st = "ok" /\ o.v = presult.v /\ o.ps.input = r

\* ?x@@3HA has been parsed: the A is left unread, and the ParseResult is
\* the one of ?x@@3H
C28_Witness ==
    /\ pc = "parsed" /\ presult.st = "ok"
    /\ input = <<"?", "x", "@", "@", "3", "H", "A">>
    /\ presult.ps.input = <<"A">>
    /\ presult.v = parse(<<"?", "x", "@", "@", "3", "H">>).v
    /\ presult.v.symbol_type = Prim("Int", {})

\* C29: a function whose parameter list is empty is rendered: write_types
\* on the empty list does not underflow in types.len() - 1, writes nothing
\* and returns Ok(()), so that the list is written "()".
C29_EmptyParameterList ==
    pc = "serialized"
    /\ presult.v.symbol_type.k \in {"NonMemberFunction", "MemberFunction"}
    /\ presult.v.symbol_type.params = <<>>
    => /\ sresult.why # "attempt to subtract with overflow"
       /\ sresult.st = "ok" =>
             \E j \in 1..(Len(sresult.w) - 1) :
                 sresult.w[j] = "(" /\ sresult.w[j + 1] = ")"

\* the decimal digits w ends with
RECURSIVE TrailingDigits(_)
TrailingDigits(w) ==
    IF w # <<>> /\ is_digit10(Last(w))
    THEN Append(TrailingDigits(SubSeq(w, 1, Len(w) - 1)), Last(w))
    ELSE <<>>

\* a decimal numeral without its leading zeros
RECURSIVE Numeral(_)
Numeral(run) ==
    IF Len(run) > 1 /\ run[1] = "0" THEN Numeral(Drop(run, 1)) ELSE run

\* C30: the numbers the parser decodes are exact.  No step of parse panics
\* on an arithmetic overflow; the value of a hexadecimal run read by
\* read_number is the number the run spells in base 16, negative exactly
\* when "?" comes first; and the guard number after each digit of a $TSS
\* name is the number the digits read so far spell in base 10.
C30_NoOverflow ==
    /\ pc # "start" =>
          presult.why \notin {"attempt to negate with overflow",
                              "attempt to add with overflow",
                              "attempt to multiply with overflow"}
    /\ \A k \in DOMAIN PLog :
          LET e == PLog[k]
              neg == e.in0 # <<>> /\ e.in0[1] = "?"
              b == IF neg THEN Drop(e.in0, 1) ELSE e.in0
              run == SubSeq(b, 1, Len(b) - Len(e.in1) - 1)
          IN  /\ e.op = "number" /\ ~is_digit10(b[1]) =>
                    /\ Magnitude(e.v) = Significant(run)
                    /\ IF neg THEN e.v <= 0 ELSE e.v >= 0
              /\ e.op = "tss_digit" =>
                    Decimal(e.v) = Numeral(TrailingDigits(
                        SubSeq(input, 1, Len(input) - Len(e.in1))))

=============================================================================
